---- MODULE Spec2Model ----
(***************************************************************************)
(* Verification model of the annotation-and-scoring orchestration layer of *)
(* the dormant-site-activation pipeline:                                   *)
(*   - the batched scorer  (08_forbidden_variants/score_forbidden_variants)*)
(*   - the sharded gnomAD query and merge (03_intersect_gnomad)            *)
(*   - the coverage lookup backends (07_purifying_selection, 08)           *)
(* Each subsystem has its own specification over the shared variables.     *)
(***************************************************************************)
EXTENDS Integers, Sequences, FiniteSets, TLC

(***************************** bounds **************************************)
\* number of input variants of the batched scorer (len(variants_df))
MaxVariants == 11
\* largest --batch-size explored
MaxBatchSize == 2
\* largest number of variants whose scoring call raises
MaxFailing == 1
\* number of process runs (first run plus restarts)
MaxRuns == 2

\* longest list of mutation-path positions given to the gnomAD query
MaxPaths == 2
\* largest n_jobs (worker processes of the pool) explored
MaxJobs == 2

\* number of distinct loci of the coverage reference and of the query sets
MaxLocus == 3

\* number of input variants of the single-pass scorer (len(variants_df))
MaxAgVariants == 2
MaxPossible == 2
MaxObserved == 2
MaxSelected == 3

(************************ program constants ********************************)
\* score_forbidden_variants.py:264  "if (batch_idx + 1) % 10 == 0"
CheckpointEvery == 10
\* analyze_coverage_constraint.py:65-66 / query_coverage.py:38-39
AN_HIGH_CONFIDENCE == 100000
AN_MEDIUM_CONFIDENCE == 50000

VARIABLES
    \* ---- batched scorer: inputs
    n_variants,          \* len(variants_df)
    batch_size,          \* args.batch_size
    failing,             \* the variants whose client.score_variant raises (in every run)
    api_key,             \* --api-key or ALPHA_GENOME_KEY is set
    input_exists,        \* the file given as --input exists
    resume_from,         \* args.resume_from of the current run
    run,                 \* number of the current process run
    \* ---- batched scorer: volatile state of the current run
    pc,                  \* position of main / score_batch_and_save
    batch_idx,           \* loop variable of main
    row,                 \* next row of batch_df.iterrows()
    batch_results,       \* variants whose scores were collected in this batch
    failed,              \* failures recorded in this batch
    summaries,           \* summary records returned for this batch
    all_summaries,       \* main's all_summaries
    all_failed,          \* main's all_failed
    started,             \* batches score_batch_and_save was called for, this run
    persist_failed,      \* batch whose df.to_parquet raised in this run, or -1
    last_ckpt,           \* batch at which this run last wrote the checkpoint, or -1
    \* ---- batched scorer: durable files
    partitions,          \* partitions/batch_<i>.parquet
    summary_checkpoint,  \* summary_checkpoint.tsv
    predictions_summary, \* predictions_summary.tsv
    \* ---- gnomAD query: inputs
    paths,               \* rows of paths.tsv: [chr, pos], in file order
    n_jobs,              \* max_workers of the ProcessPoolExecutor
    paths_file_exists,   \* the mutation paths file (paths.tsv) exists
    vcf_dir_exists,      \* the gnomAD VCF directory exists
    \* ---- gnomAD query: state of query_gnomad_parallel / match_paths_to_gnomad
    gpc,                 \* position of main
    bed_df,              \* query regions after prefixing and filtering
    chromosomes,         \* the shards: chromosomes submitted to the pool
    worker,              \* per shard: "queued", "running", "finished"
    outcome,             \* per shard: what happened inside query_single_chromosome
    tmp_bed,             \* per shard: the temporary BED file of query_single_chromosome
    future,              \* per shard: the tuple the worker returned
    consumed,            \* per shard: how many times main received its result
    completed,           \* query_gnomad_parallel's completed
    failed_chroms,       \* query_gnomad_parallel's failed
    output_rows,         \* data rows of gnomad_query_results.tsv, in file order
    success,             \* return value of query_gnomad_parallel
    merged,              \* rows of paths_with_gnomad.tsv, one entry per paths row
    \* ---- coverage lookup: inputs
    reference,           \* the coverage dataset: locus -> AN, one line per locus
    query_positions,     \* the loci to look up
    \* ---- coverage lookup: state of the three backends run on that input
    cpc,                 \* which backend is running
    coverage_dict,       \* load_coverage_into_memory's dictionary
    mem_results,         \* result of query_coverage_from_memory
    lines_processed,     \* query_coverage_file's lines_processed
    stream_results,      \* query_coverage_file's results
    tabix_results,       \* query_batch's results: locus -> an
    forbidden_an,        \* query_coverage_batch: the an computed per position
    high_conf_variants,  \* query_coverage_batch's results
    position_coverage,   \* rows written by save_position_coverage
    stats_counts,        \* compute_constraint_statistics: the tier counts of the stratum
    tabix_counts,        \* query_coverage.main: the tier counts of the stratum
    \* ---- single-pass scorer (run_alphagenome_scoring): inputs
    ag_api_key,          \* --api-key or ALPHA_GENOME_KEY is set
    variants_path_exists,\* unique_variants.tsv or paths_with_gnomad.tsv exists
    clean,               \* args.clean
    ag_n_variants,       \* len(variants_df)
    ag_failing,          \* the rows whose scoring raises
    ag_bad_fields,       \* the rows whose fields cannot be read (int(...) raises)
    ref_alt,             \* the row whose values the locals ref and alt hold, -1: unbound
    failed_ref,          \* <<row, row whose ref/alt its failure entry carries>>
    had_checkpoint,      \* predictions_raw.parquet existed when the process started
    \* ---- single-pass scorer: state of main / score_variants_alphagenome
    apc,                 \* position of main
    raw_checkpoint,      \* the file predictions_raw.parquet: "present" or "absent"
    ag_row,              \* rows of variants_df the scoring loop has gone through
    results,             \* rows whose scores were collected
    failed_variants,     \* rows recorded as failed
    predictions_df,      \* where main's predictions_df comes from
    return_code,         \* value main returned, -1 before it returns
    \* ---- constraint statistics: inputs
    st_script,           \* "analyze" (analyze_coverage_constraint) or "query_coverage"
    hamming_arg,         \* args.hamming
    paths_count,         \* per Hamming distance: distinct single-step loci in paths.tsv
    landscape_count,     \* per Hamming distance: distinct loci in the landscape file
    \* ---- constraint statistics: state of main
    spc,                 \* position of main
    positions_by_hamming,\* stratum -> number of possible positions
    observed_by_hamming, \* stratum -> number of observed variants
    constraint_df,       \* stratum -> row of the statistics table
    zero_divisions,      \* strata for which the report divided by zero
    \* ---- pipeline runner (run_pipeline.py): inputs
    modules,             \* the module numbers given to run_pipeline
    dry_run,             \* --dry-run
    prereq_ok,           \* per module: every prerequisite file exists
    env_ok,              \* per module: the required environment variable is set
    failing_script,      \* per module: the first script that fails, 0 when none
    \* ---- pipeline runner: state of run_pipeline
    ppc,                 \* position of run_pipeline
    todo,                \* the sorted modules the loop has not reached yet
    mod_num,             \* the module the loop is at
    script_i,            \* the script of the module that is next
    visited,             \* the modules the loop has entered, in order
    executed,            \* the <<module, script>> commands actually executed
    failed_modules,      \* run_pipeline's failed_modules
    pipeline_return      \* value run_pipeline returned

varsScorer == <<n_variants, batch_size, failing, api_key, input_exists, resume_from, run, pc, batch_idx,
                row, batch_results, failed, summaries, all_summaries, all_failed,
                started, persist_failed, last_ckpt, partitions, summary_checkpoint,
                predictions_summary>>

varsGnomad == <<paths, n_jobs, paths_file_exists, vcf_dir_exists, gpc, bed_df, chromosomes, worker, outcome, tmp_bed, future,
                consumed, completed, failed_chroms, output_rows, success, merged>>

varsCoverage == <<reference, query_positions, cpc, coverage_dict, mem_results,
                  lines_processed, stream_results, tabix_results, forbidden_an,
                  high_conf_variants, position_coverage, stats_counts, tabix_counts>>

varsAlpha == <<ag_api_key, variants_path_exists, clean, ag_n_variants, ag_failing,
               ag_bad_fields, ref_alt, failed_ref,
               had_checkpoint, apc, raw_checkpoint, ag_row, results, failed_variants,
               predictions_df, return_code>>

varsStats == <<st_script, hamming_arg, paths_count, landscape_count, spc,
               positions_by_hamming, observed_by_hamming, constraint_df, zero_divisions>>

varsPipe == <<modules, dry_run, prereq_ok, env_ok, failing_script, ppc, todo, mod_num,
              script_i, visited, executed, failed_modules, pipeline_return>>

vars == <<varsScorer, varsGnomad, varsCoverage, varsAlpha, varsStats, varsPipe>>

Min(a, b) == IF a < b THEN a ELSE b

(***************************************************************************)
(*                          BATCHED SCORER                                 *)
(***************************************************************************)

Variants == 0 .. (n_variants - 1)

\* main: n_batches = (n_variants + batch_size - 1) // batch_size
n_batches == (n_variants + batch_size - 1) \div batch_size

\* main: batch_start / batch_end / variants_df.iloc[batch_start:batch_end]
batch_start(i) == i * batch_size
\* bug variant: the end of the slice is not clamped to the number of variants
batch_end_NoClamp(i) == (i + 1) * batch_size
batch_end(i) == Min((i + 1) * batch_size, n_variants)
batch_df(i) == batch_start(i) .. (batch_end(i) - 1)

NoFile == [state |-> "absent", rows |-> {}]
NoCheckpoint == [written |-> FALSE, batch |-> -1, rows |-> {}]
NoSummary == [written |-> FALSE, rows |-> {}]

\* bug variant: the loop starts at batch 0 whatever --resume-from says
EnterLoop_IgnoresResume(r) ==
    /\ resume_from' = r
    /\ batch_idx' = 0
    /\ row' = 0
    /\ pc' = "score"
    /\ started' = {0}
    /\ batch_results' = {}
    /\ failed' = {}
    /\ summaries' = {}
    /\ all_summaries' = {}
    /\ all_failed' = {}
    /\ persist_failed' = -1
    /\ last_ckpt' = -1

\* state of a process that has just entered the batch loop at batch r
EnterLoop(r) ==
    /\ resume_from' = r
    /\ batch_idx' = r
    /\ row' = batch_start(r)
    /\ pc' = IF r < n_batches THEN "score" ELSE "finalize"
    /\ started' = IF r < n_batches THEN {r} ELSE {}
    /\ batch_results' = {}
    /\ failed' = {}
    /\ summaries' = {}
    /\ all_summaries' = {}
    /\ all_failed' = {}
    /\ persist_failed' = -1
    /\ last_ckpt' = -1

InitScorer ==
    /\ n_variants \in 1 .. MaxVariants
    /\ batch_size \in 1 .. MaxBatchSize
    /\ failing \in { F \in SUBSET (0 .. (n_variants - 1)) : Cardinality(F) <= MaxFailing }
    /\ api_key \in BOOLEAN
    /\ input_exists \in BOOLEAN
    /\ run = 1
    /\ resume_from = 0
    /\ batch_idx = 0
    /\ row = 0
    /\ pc = "start"
    /\ started = {}
    /\ batch_results = {}
    /\ failed = {}
    /\ summaries = {}
    /\ all_summaries = {}
    /\ all_failed = {}
    /\ persist_failed = -1
    /\ last_ckpt = -1
    /\ partitions = [i \in 0 .. (n_batches - 1) |-> NoFile]
    /\ summary_checkpoint = NoCheckpoint
    /\ predictions_summary = NoSummary

\* bug variant: the client is created and the first batch is entered before the
\* key and the input are looked at
Startup_NoChecks ==
    /\ pc = "start"
    /\ EnterLoop(resume_from)
    /\ UNCHANGED <<n_variants, batch_size, failing, api_key, input_exists, run, partitions,
                   summary_checkpoint, predictions_summary>>
    /\ UNCHANGED <<varsGnomad, varsCoverage, varsAlpha, varsStats, varsPipe>>

\* main from its first line to the batch loop: "if not api_key: raise
\* ValueError", then pd.read_csv(args.input) which raises FileNotFoundError for
\* a missing file, then the client is created and the loop is entered
Startup ==
    /\ pc = "start"
    /\ IF api_key /\ input_exists
          THEN EnterLoop(resume_from)
          ELSE /\ pc' = "config_error"
               /\ UNCHANGED <<resume_from, batch_idx, row, started, batch_results, failed,
                              summaries, all_summaries, all_failed, persist_failed,
                              last_ckpt>>
    /\ UNCHANGED <<n_variants, batch_size, failing, api_key, input_exists, run, partitions,
                   summary_checkpoint, predictions_summary>>
    /\ UNCHANGED <<varsGnomad, varsCoverage, varsAlpha, varsStats, varsPipe>>

\* bug variant: a raising scoring call ends the loop over the batch (break
\* instead of continue), the rows after it are never scored
ScoreRow_BreakOnError ==
    /\ pc = "score"
    /\ row < batch_end(batch_idx)
    /\ IF row \in failing
          THEN /\ failed' = failed \cup {row}
               /\ row' = batch_end(batch_idx)
               /\ UNCHANGED batch_results
          ELSE /\ batch_results' = batch_results \cup {row}
               /\ row' = row + 1
               /\ UNCHANGED failed
    /\ UNCHANGED <<n_variants, batch_size, failing, api_key, input_exists, resume_from, run, pc, batch_idx,
                   summaries, all_summaries, all_failed, started, persist_failed,
                   last_ckpt, partitions, summary_checkpoint, predictions_summary>>
    /\ UNCHANGED <<varsGnomad, varsCoverage, varsAlpha, varsStats, varsPipe>>

\* score_batch_and_save, one iteration of "for _, row in batch_df.iterrows()":
\* the scoring call returns and its scores are collected, or it raises and the
\* except branch records the variant and continues.
ScoreRow ==
    /\ pc = "score"
    /\ row < batch_end(batch_idx)
    /\ IF row \in failing
          THEN /\ failed' = failed \cup {row}
               /\ UNCHANGED batch_results
          ELSE /\ batch_results' = batch_results \cup {row}
               /\ UNCHANGED failed
    /\ row' = row + 1
    /\ UNCHANGED <<n_variants, batch_size, failing, api_key, input_exists, resume_from, run, pc, batch_idx,
                   summaries, all_summaries, all_failed, started, persist_failed,
                   last_ckpt, partitions, summary_checkpoint, predictions_summary>>
    /\ UNCHANGED <<varsGnomad, varsCoverage, varsAlpha, varsStats, varsPipe>>

\* score_batch_and_save, client.score_variant(interval=..., variant=...,
\* variant_scorers=..., organism=...): the call is made without a timeout or
\* deadline argument and nothing around it bounds its duration, so when the
\* service never answers the process stays inside the call
ScoreCallBlocks ==
    /\ pc = "score"
    /\ row < batch_end(batch_idx)
    /\ pc' = "blocked"
    /\ UNCHANGED <<n_variants, batch_size, failing, api_key, input_exists, resume_from, run, batch_idx, row,
                   batch_results, failed, summaries, all_summaries, all_failed, started,
                   persist_failed, last_ckpt, partitions, summary_checkpoint,
                   predictions_summary>>
    /\ UNCHANGED <<varsGnomad, varsCoverage, varsAlpha, varsStats, varsPipe>>

\* bug variant: the summary is returned without the batch being written
EndOfRows_NoWrite ==
    /\ pc = "score"
    /\ row = batch_end(batch_idx)
    /\ summaries' = batch_results
    /\ pc' = "tail"
    /\ UNCHANGED <<n_variants, batch_size, failing, api_key, input_exists, resume_from, run, batch_idx, row,
                   batch_results, failed, all_summaries, all_failed, started,
                   persist_failed, last_ckpt, partitions, summary_checkpoint,
                   predictions_summary>>
    /\ UNCHANGED <<varsGnomad, varsCoverage, varsAlpha, varsStats, varsPipe>>

\* score_batch_and_save after the loop: "if not batch_results: return [], failed"
\* otherwise go on to build the frame and write it.
EndOfRows ==
    /\ pc = "score"
    /\ row = batch_end(batch_idx)
    /\ IF batch_results = {}
          THEN /\ summaries' = {}
               /\ pc' = "tail"
          ELSE /\ pc' = "save"
               /\ UNCHANGED summaries
    /\ UNCHANGED <<n_variants, batch_size, failing, api_key, input_exists, resume_from, run, batch_idx, row,
                   batch_results, failed, all_summaries, all_failed, started,
                   persist_failed, last_ckpt, partitions, summary_checkpoint,
                   predictions_summary>>
    /\ UNCHANGED <<varsGnomad, varsCoverage, varsAlpha, varsStats, varsPipe>>

\* bug variant: the write is handed to the background and the function returns
\* while the file is still being filled
ToParquetBegin_Async ==
    /\ pc = "save"
    /\ partitions' = [partitions EXCEPT ![batch_idx] =
                          [state |-> "partial", rows |-> batch_results]]
    /\ summaries' = batch_results
    /\ pc' = "tail"
    /\ UNCHANGED <<n_variants, batch_size, failing, api_key, input_exists, resume_from, run, batch_idx, row,
                   batch_results, failed, all_summaries, all_failed, started,
                   persist_failed, last_ckpt, summary_checkpoint, predictions_summary>>
    /\ UNCHANGED <<varsGnomad, varsCoverage, varsAlpha, varsStats, varsPipe>>

\* df.to_parquet(batch_path) starts: the file is created and is being filled
ToParquetBegin ==
    /\ pc = "save"
    /\ partitions' = [partitions EXCEPT ![batch_idx] =
                          [state |-> "partial", rows |-> batch_results]]
    /\ pc' = "writing"
    /\ UNCHANGED <<n_variants, batch_size, failing, api_key, input_exists, resume_from, run, batch_idx, row,
                   batch_results, failed, summaries, all_summaries, all_failed, started,
                   persist_failed, last_ckpt, summary_checkpoint, predictions_summary>>
    /\ UNCHANGED <<varsGnomad, varsCoverage, varsAlpha, varsStats, varsPipe>>

\* df.to_parquet returns; the summary of the batch is computed and returned
ToParquetEnd ==
    /\ pc = "writing"
    /\ partitions' = [partitions EXCEPT ![batch_idx] =
                          [state |-> "full", rows |-> batch_results]]
    /\ summaries' = batch_results
    /\ pc' = "tail"
    /\ UNCHANGED <<n_variants, batch_size, failing, api_key, input_exists, resume_from, run, batch_idx, row,
                   batch_results, failed, all_summaries, all_failed, started,
                   persist_failed, last_ckpt, summary_checkpoint, predictions_summary>>
    /\ UNCHANGED <<varsGnomad, varsCoverage, varsAlpha, varsStats, varsPipe>>

\* bug variant: the write error is caught and the batch is treated as saved
ToParquetRaises_Swallowed ==
    /\ pc \in {"save", "writing"}
    /\ persist_failed' = batch_idx
    /\ summaries' = batch_results
    /\ pc' = "tail"
    /\ UNCHANGED <<n_variants, batch_size, failing, api_key, input_exists, resume_from, run, batch_idx, row,
                   batch_results, failed, all_summaries, all_failed, started,
                   last_ckpt, partitions, summary_checkpoint, predictions_summary>>
    /\ UNCHANGED <<varsGnomad, varsCoverage, varsAlpha, varsStats, varsPipe>>

\* mkdir or df.to_parquet raises: nothing catches it, main ends with a traceback
ToParquetRaises ==
    /\ pc \in {"save", "writing"}
    /\ persist_failed' = batch_idx
    /\ pc' = "aborted"
    /\ UNCHANGED <<n_variants, batch_size, failing, api_key, input_exists, resume_from, run, batch_idx, row,
                   batch_results, failed, summaries, all_summaries, all_failed, started,
                   last_ckpt, partitions, summary_checkpoint, predictions_summary>>
    /\ UNCHANGED <<varsGnomad, varsCoverage, varsAlpha, varsStats, varsPipe>>

\* bug variant: the loop steps over a batch (the next batch is batch_idx + 2)
LoopTail_SkipsBatch ==
    /\ pc = "tail"
    /\ all_summaries' = all_summaries \cup summaries
    /\ all_failed' = all_failed \cup failed
    /\ IF (batch_idx + 1) % CheckpointEvery = 0
          THEN /\ summary_checkpoint' = [written |-> TRUE, batch |-> batch_idx,
                                         rows |-> all_summaries']
               /\ last_ckpt' = batch_idx
          ELSE UNCHANGED <<summary_checkpoint, last_ckpt>>
    /\ batch_idx' = batch_idx + 2
    /\ row' = batch_start(batch_idx + 2)
    /\ batch_results' = {}
    /\ failed' = {}
    /\ summaries' = {}
    /\ IF batch_idx + 2 < n_batches
          THEN /\ pc' = "score"
               /\ started' = started \cup {batch_idx + 2}
          ELSE /\ pc' = "finalize"
               /\ UNCHANGED started
    /\ UNCHANGED <<n_variants, batch_size, failing, api_key, input_exists, resume_from, run, persist_failed,
                   partitions, predictions_summary>>
    /\ UNCHANGED <<varsGnomad, varsCoverage, varsAlpha, varsStats, varsPipe>>

\* main, after score_batch_and_save returned: extend the running lists, write
\* summary_checkpoint.tsv every CheckpointEvery batches, step to the next batch
LoopTail ==
    /\ pc = "tail"
    /\ all_summaries' = all_summaries \cup summaries
    /\ all_failed' = all_failed \cup failed
    /\ IF (batch_idx + 1) % CheckpointEvery = 0
          THEN /\ summary_checkpoint' = [written |-> TRUE, batch |-> batch_idx,
                                         rows |-> all_summaries']
               /\ last_ckpt' = batch_idx
          ELSE UNCHANGED <<summary_checkpoint, last_ckpt>>
    /\ batch_idx' = batch_idx + 1
    /\ row' = batch_start(batch_idx + 1)
    /\ batch_results' = {}
    /\ failed' = {}
    /\ summaries' = {}
    /\ IF batch_idx + 1 < n_batches
          THEN /\ pc' = "score"
               /\ started' = started \cup {batch_idx + 1}
          ELSE /\ pc' = "finalize"
               /\ UNCHANGED started
    /\ UNCHANGED <<n_variants, batch_size, failing, api_key, input_exists, resume_from, run, persist_failed,
                   partitions, predictions_summary>>
    /\ UNCHANGED <<varsGnomad, varsCoverage, varsAlpha, varsStats, varsPipe>>

\* main, "Final outputs": pd.DataFrame(all_summaries).merge(... on variant_id)
\* raises KeyError when all_summaries is empty; otherwise predictions_summary.tsv
\* is written from this run's all_summaries
Finalize ==
    /\ pc = "finalize"
    /\ IF all_summaries = {}
          THEN /\ pc' = "aborted"
               /\ UNCHANGED predictions_summary
          ELSE /\ predictions_summary' = [written |-> TRUE, rows |-> all_summaries]
               /\ pc' = "done"
    /\ UNCHANGED <<n_variants, batch_size, failing, api_key, input_exists, resume_from, run, batch_idx, row,
                   batch_results, failed, summaries, all_summaries, all_failed, started,
                   persist_failed, last_ckpt, partitions, summary_checkpoint>>
    /\ UNCHANGED <<varsGnomad, varsCoverage, varsAlpha, varsStats, varsPipe>>

\* the process is killed: memory is lost, files stay as they are. batch_idx is
\* kept as the last "Batch i/n" line of the log.
Crash ==
    /\ pc \in {"score", "blocked", "save", "writing", "tail", "finalize"}
    /\ run < MaxRuns
    /\ pc' = "crashed"
    /\ row' = 0
    /\ batch_results' = {}
    /\ failed' = {}
    /\ summaries' = {}
    /\ all_summaries' = {}
    /\ all_failed' = {}
    /\ UNCHANGED <<n_variants, batch_size, failing, api_key, input_exists, resume_from, run, batch_idx, started,
                   persist_failed, last_ckpt, partitions, summary_checkpoint,
                   predictions_summary>>
    /\ UNCHANGED <<varsGnomad, varsCoverage, varsAlpha, varsStats, varsPipe>>

\* the values an operator passes as --resume-from: the default, the batch the
\* log last named, the batch after the last checkpoint
ResumeChoices == {0, Min(batch_idx, n_batches), summary_checkpoint.batch + 1}

\* a new process: argparse reads --resume-from (default 0), all_summaries = []
Restart(r) ==
    /\ pc \in {"crashed", "aborted"}
    /\ run < MaxRuns
    /\ run' = run + 1
    /\ EnterLoop(r)
    /\ UNCHANGED <<n_variants, batch_size, failing, api_key, input_exists, partitions, summary_checkpoint,
                   predictions_summary>>
    /\ UNCHANGED <<varsGnomad, varsCoverage, varsAlpha, varsStats, varsPipe>>

\* the exit status of the scorer process: main returns and the interpreter ends
\* with status 0; an uncaught exception ends it with status 1; -1 while it runs
\* (or after it was killed)
ExitStatus ==
    CASE pc = "done" -> 0
      [] pc \in {"aborted", "config_error"} -> 1
      [] OTHER -> -1

\* main, the lines logged under "COMPLETE": "Variants scored: len(summary_df)"
\* and "Failed: len(all_failed)"; they are reached only when main gets to its
\* end
FinalTally ==
    IF pc = "done"
       THEN [printed |-> TRUE, scored |-> Cardinality(predictions_summary.rows),
             failed |-> Cardinality(all_failed)]
       ELSE [printed |-> FALSE, scored |-> 0, failed |-> 0]

\* the steps the scorer process takes by itself
ProgramStep ==
    \/ Startup
    \/ ScoreRow
    \/ EndOfRows
    \/ ToParquetBegin
    \/ ToParquetEnd
    \/ ToParquetRaises
    \/ LoopTail
    \/ Finalize

NextScorer ==
    \/ Startup
    \/ ScoreRow
    \/ ScoreCallBlocks
    \/ EndOfRows
    \/ ToParquetBegin
    \/ ToParquetEnd
    \/ ToParquetRaises
    \/ LoopTail
    \/ Finalize
    \/ Crash
    \/ \E r \in ResumeChoices : Restart(r)

\* the scorer is not part of the run
IdleScorer ==
    /\ n_variants = 0
    /\ batch_size = 1
    /\ failing = {}
    /\ api_key = FALSE
    /\ input_exists = FALSE
    /\ run = 0
    /\ resume_from = 0
    /\ batch_idx = 0
    /\ row = 0
    /\ pc = "idle"
    /\ started = {}
    /\ batch_results = {}
    /\ failed = {}
    /\ summaries = {}
    /\ all_summaries = {}
    /\ all_failed = {}
    /\ persist_failed = -1
    /\ last_ckpt = -1
    /\ partitions = << >>
    /\ summary_checkpoint = NoCheckpoint
    /\ predictions_summary = NoSummary

(***************************************************************************)
(*                     BATCHED SCORER: PROPERTIES                          *)
(***************************************************************************)

\* the batch has at least one variant whose scoring call returns
HasScores(i) == batch_df(i) \ failing # {}

\* the batches covered by the checkpoint the current run wrote
Checkpointed == IF last_ckpt = -1 THEN {} ELSE resume_from .. last_ckpt

C2_ResumeFromCheckpoint ==
    [][run' = run + 1 =>
          resume_from' \in {summary_checkpoint.batch + 1, batch_idx}]_vars

\* C2 (amended): a run started with --resume-from r (default 0, the checkpoint
\* file is not read) calls score_batch_and_save for exactly the batches
\* r, r+1, ... in order up to the current one, for none below r, skipping none,
\* and enters each batch with empty batch results; a finished run has executed
\* exactly r .. n_batches-1.
C2_RunExecutesFromResumePoint ==
    /\ pc \notin {"start", "config_error"} =>
           started = resume_from .. Min(batch_idx, n_batches - 1)
    /\ (pc = "score" /\ row = batch_start(batch_idx)) =>
           (batch_results = {} /\ failed = {})
    /\ pc = "done" => started = resume_from .. (n_batches - 1)

C2_Witness ==
    /\ run > 1
    /\ resume_from > 0
    /\ pc = "done"
    /\ Cardinality(started) > 1

\* C3: a run that crashed and was resumed ends with a predictions_summary.tsv
\* equal to that of an uninterrupted run: the successfully scored variants of
\* all batches.
C3_ResumedSummaryEqualsUninterrupted ==
    pc = "done" => predictions_summary.rows = Variants \ failing

\* C8: a variant whose scoring call raises is recorded in failed, is in neither
\* the artifact nor the summary of its batch, the other variants of the batch
\* are scored all the same, and the batch reaches main's loop tail.
C8_ItemFailureIsContained ==
    /\ pc = "score" =>
          /\ failed = (batch_start(batch_idx) .. (row - 1)) \cap failing
          /\ batch_results = (batch_start(batch_idx) .. (row - 1)) \ failing
    /\ pc \in {"save", "writing", "tail"} =>
          /\ failed = batch_df(batch_idx) \cap failing
          /\ batch_results = batch_df(batch_idx) \ failing
    /\ pc = "writing" => partitions[batch_idx].rows = batch_df(batch_idx) \ failing
    /\ pc = "tail" =>
          /\ summaries = batch_df(batch_idx) \ failing
          /\ summaries # {} =>
                partitions[batch_idx] =
                    [state |-> "full", rows |-> batch_df(batch_idx) \ failing]
    /\ all_summaries \cap failing = {}
    /\ all_failed \subseteq failing
    /\ (pc = "aborted" /\ persist_failed = -1) => batch_idx >= n_batches

C8_Witness ==
    /\ pc = "tail"
    /\ \E v \in failed : \E w \in summaries : w > v
    /\ partitions[batch_idx].state = "full"

\* C9: when writing a batch's artifact raises, the run is over: it stays at that
\* batch, no later batch is started, and the checkpoint written by the run is
\* below the unpersisted batch.
C9_PersistFailureIsFatal ==
    persist_failed # -1 =>
        /\ pc = "aborted"
        /\ batch_idx = persist_failed
        /\ \A i \in started : i <= persist_failed
        /\ last_ckpt < persist_failed
        /\ \A i \in Checkpointed : i < persist_failed

C9_Witness ==
    /\ persist_failed # -1
    /\ persist_failed > resume_from
    /\ partitions[persist_failed].state = "partial"

\* the batches the current run completed before the batch it is in
CompletedBefore == resume_from .. (Min(batch_idx, n_batches) - 1)

ArtifactCompletes(i) == partitions[i].state # "full" /\ partitions'[i].state = "full"

C13_ExternalCallsTimeOut ==
    pc = "blocked" => ENABLED ProgramStep

\* C18: the scorer process ends with status 0 only when every variant was
\* scored, and a run that completed with failed variants ends with a status that
\* is neither 0 nor the status of a run that aborted.
C18_ExitStatusTellsOutcome ==
    /\ ExitStatus = 0 => all_failed = {}
    /\ (pc = "done" /\ all_failed # {}) => ExitStatus \notin {0, 1}

\* the variants of the batches the current run goes through
VariantsOfRun == { v \in Variants : v >= batch_start(resume_from) }

\* C21: a run of the batched scorer that no fatal error stops (its inputs are
\* there, no artifact write fails) ends with the final tally printed, whatever
\* set of variants fails, and the tally counts the failed variants of the run.
C21_RunEndsWithFinalTally ==
    /\ (pc = "aborted" /\ persist_failed = -1) => FinalTally.printed
    /\ pc = "done" =>
          /\ FinalTally.printed
          /\ FinalTally.failed = Cardinality(VariantsOfRun \cap failing)
          /\ FinalTally.scored = Cardinality(VariantsOfRun \ failing)

\* C29: the batch slices partition the variant list: there are
\* ceil(n_variants / batch_size) batches, batch i holds exactly the offsets
\* i*batch_size .. min((i+1)*batch_size, n_variants) - 1, every batch is
\* non-empty and every variant is in exactly one batch. The slices depend on
\* n_variants and batch_size alone, so the partition is stated where main
\* starts; in the loop the slice of the current batch is non-empty, begins
\* where the slice before it ended, the last one ends at n_variants, and the
\* rows the loop goes through are rows of that slice.
C29_BatchesPartitionVariants ==
    /\ n_batches * batch_size >= n_variants
    /\ (n_batches - 1) * batch_size < n_variants
    /\ pc = "start" =>
          /\ \A i \in 0 .. (n_batches - 1) :
                /\ batch_df(i) # {}
                /\ batch_df(i) =
                      { v \in Variants : i * batch_size <= v /\ v < (i + 1) * batch_size }
                /\ Cardinality(batch_df(i)) <= batch_size
          /\ \A v \in Variants :
                Cardinality({ i \in 0 .. (n_batches - 1) : v \in batch_df(i) }) = 1
    /\ pc \in {"score", "blocked", "save", "writing", "tail"} =>
          /\ batch_idx < n_batches
          /\ batch_start(batch_idx) < batch_end(batch_idx)
          /\ batch_end(batch_idx) - batch_start(batch_idx) <= batch_size
          /\ batch_idx = 0 => batch_start(batch_idx) = 0
          /\ batch_idx > 0 => batch_start(batch_idx) = batch_end(batch_idx - 1)
          /\ batch_idx = n_batches - 1 => batch_end(batch_idx) = n_variants
          /\ batch_start(batch_idx) <= row /\ row <= batch_end(batch_idx)

\* the loop is at the end of the last batch, which is shorter than batch_size
C29_Witness ==
    /\ pc = "score"
    /\ batch_idx = n_batches - 1
    /\ batch_idx > 0
    /\ n_variants % batch_size # 0
    /\ row = n_variants

\* C30: whenever summary_checkpoint.tsv has been written, at batch b, it holds
\* the summaries of every batch up to b whose artifact is committed, the
\* batches committed by an earlier run before a resume included.
C30_CheckpointHoldsEveryCommittedBatch ==
    summary_checkpoint.written =>
        \A i \in 0 .. summary_checkpoint.batch :
            partitions[i].state = "full" => partitions[i].rows \subseteq summary_checkpoint.rows

(***************************************************************************)
(*                 SHARDED gnomAD QUERY AND MERGE                          *)
(***************************************************************************)

\* A chromosome name is <<k, id>>: the text "chr" repeated k times, then id.
\* "1" is <<0, "1">>, "chr1" is <<1, "1">>, "chrchr1" is <<2, "1">>.
Ids == {"1", "2", "MT"}
InputNames == { <<k, id>> : k \in {0, 1}, id \in Ids }
Coordinates == {100, 200}

\* str.startswith('chr')
StartsWithChr(name) == name[1] >= 1
\* 'chr' + name
AddChr(name) == <<name[1] + 1, name[2]>>

\* query_gnomad_parallel: available_chroms = chr1..chr22, chrX, chrY
available_chroms == { <<1, "1">>, <<1, "2">> }

\* order of Python strings on the names: no id starts with "c", so a name with
\* fewer "chr" sorts first; ids compare as "1" < "2" < "MT"
IdRank(id) == CASE id = "1" -> 1 [] id = "2" -> 2 [] OTHER -> 3
NameLess(a, b) == a[1] < b[1] \/ (a[1] = b[1] /\ IdRank(a[2]) < IdRank(b[2]))

\* the records of the per-chromosome gnomAD VCFs (the reference dataset):
\* coordinate 100 of chr1 and chr2 carries a variant, coordinate 200 does not
GnomadVcf == { [chr |-> <<1, "1">>, pos |-> 100, AN |-> 3],
               [chr |-> <<1, "2">>, pos |-> 100, AN |-> 5] }

\* what happens inside query_single_chromosome: the query succeeds, the VCF is
\* not there, bcftools exits non-zero, the 6 hour timeout expires, subprocess.run
\* raises another exception, or writing the temporary BED file raises
Outcomes == {"ok", "vcf_missing", "exit_nonzero", "timeout", "exception", "write_raises"}

NoResult == [text |-> {}, num |-> 0, error |-> "pending"]

\* the gnomAD query is not part of the run
IdleGnomad ==
    /\ paths = << >>
    /\ n_jobs = 0
    /\ paths_file_exists = FALSE
    /\ vcf_dir_exists = FALSE
    /\ gpc = "idle"
    /\ bed_df = {}
    /\ chromosomes = {}
    /\ worker = << >>
    /\ outcome = << >>
    /\ tmp_bed = << >>
    /\ future = << >>
    /\ consumed = << >>
    /\ completed = 0
    /\ failed_chroms = << >>
    /\ output_rows = << >>
    /\ success = "none"
    /\ merged = << >>

PathRows == [chr : InputNames, pos : Coordinates]

InitGnomad ==
    /\ paths \in { q \in UNION { [1 .. n -> PathRows] : n \in 1 .. MaxPaths } :
                      \A i, j \in DOMAIN q : i # j => q[i] # q[j] }
    /\ n_jobs \in 1 .. MaxJobs
    /\ paths_file_exists \in BOOLEAN
    /\ vcf_dir_exists \in BOOLEAN
    /\ gpc = "check"
    /\ bed_df = {}
    /\ chromosomes = {}
    /\ worker = << >>
    /\ outcome = << >>
    /\ tmp_bed = << >>
    /\ future = << >>
    /\ consumed = << >>
    /\ completed = 0
    /\ failed_chroms = << >>
    /\ output_rows = << >>
    /\ success = "none"
    /\ merged = << >>

\* bug variant: the inputs are not looked at before the query is prepared
CheckInputs_Skipped ==
    /\ gpc = "check"
    /\ gpc' = "start"
    /\ UNCHANGED <<paths, n_jobs, paths_file_exists, vcf_dir_exists, tmp_bed, bed_df,
                   chromosomes, worker, outcome, future, consumed, completed,
                   failed_chroms, output_rows, success, merged>>
    /\ UNCHANGED <<varsScorer, varsCoverage, varsAlpha, varsStats, varsPipe>>

\* main, "Check inputs": a missing paths file or a missing gnomAD VCF directory
\* is logged and ends the process with sys.exit(1) before anything is read
CheckInputs ==
    /\ gpc = "check"
    /\ gpc' = IF paths_file_exists /\ vcf_dir_exists THEN "start" ELSE "config_error"
    /\ UNCHANGED <<paths, n_jobs, paths_file_exists, vcf_dir_exists, tmp_bed, bed_df,
                   chromosomes, worker, outcome, future, consumed, completed,
                   failed_chroms, output_rows, success, merged>>
    /\ UNCHANGED <<varsScorer, varsCoverage, varsAlpha, varsStats, varsPipe>>

\* main: the BED rows are the distinct (chr, genomic_position) of paths.tsv,
\* sorted by chr and start
BedOfPaths == { paths[i] : i \in DOMAIN paths }

\* query_gnomad_parallel: first_chr = bed_df['chr'].iloc[0] of the sorted BED
first_chr(bed) ==
    CHOOSE n \in { r.chr : r \in bed } :
        \A m \in { r.chr : r \in bed } : m = n \/ NameLess(n, m)

\* query_gnomad_parallel: "if not first_chr.startswith('chr'): bed_df['chr'] =
\* 'chr' + bed_df['chr']" -- decided on the first row, applied to every row
PrefixedBed(bed) ==
    IF StartsWithChr(first_chr(bed))
       THEN bed
       ELSE { [chr |-> AddChr(r.chr), pos |-> r.pos] : r \in bed }

\* bug variant: the positions of chromosomes without a gnomAD VCF are kept
FilteredBed_KeepsAll(bed) == PrefixedBed(bed)

\* query_gnomad_parallel: bed_df = bed_df[bed_df['chr'].isin(chromosomes)]
FilteredBed(bed) == { r \in PrefixedBed(bed) : r.chr \in available_chroms }

\* query_gnomad_parallel up to the submission of the shards: read and prefix the
\* BED, keep the chromosomes gnomAD has, (len(bed_df) / len(chromosomes) raises
\* ZeroDivisionError when none is left), write the header of the output file,
\* submit one query_single_chromosome per chromosome
PlanShards ==
    /\ gpc = "start"
    /\ bed_df' = FilteredBed(BedOfPaths)
    /\ chromosomes' = { r.chr : r \in bed_df' }
    /\ IF chromosomes' = {}
          THEN gpc' = "aborted"
          ELSE gpc' = "collect"
    /\ worker' = [c \in chromosomes' |-> "queued"]
    /\ outcome' = [c \in chromosomes' |-> "none"]
    /\ tmp_bed' = [c \in chromosomes' |-> "none"]
    /\ future' = [c \in chromosomes' |-> NoResult]
    /\ consumed' = [c \in chromosomes' |-> 0]
    /\ output_rows' = << >>
    /\ UNCHANGED <<paths, n_jobs, paths_file_exists, vcf_dir_exists, completed, failed_chroms, success, merged>>
    /\ UNCHANGED <<varsScorer, varsCoverage, varsAlpha, varsStats, varsPipe>>

\* the pool hands a queued shard to a free worker process
WorkerStart(c) ==
    /\ gpc = "collect"
    /\ worker[c] = "queued"
    /\ Cardinality({ d \in chromosomes : worker[d] = "running" }) < n_jobs
    /\ worker' = [worker EXCEPT ![c] = "running"]
    /\ UNCHANGED <<paths, n_jobs, paths_file_exists, vcf_dir_exists, tmp_bed, gpc, bed_df, chromosomes, outcome, future, consumed,
                   completed, failed_chroms, output_rows, success, merged>>
    /\ UNCHANGED <<varsScorer, varsCoverage, varsAlpha, varsStats, varsPipe>>

\* query_single_chromosome: chrom_bed_data = bed_df[bed_df['chr'] == chrom],
\* the positions of the shard
ShardRows(c) == { r \in bed_df : r.chr = c }

\* what bcftools query -R prints for the shard: the VCF records of the
\* chromosome at the queried coordinates
BcftoolsRows(c) ==
    { v \in GnomadVcf : v.chr = c /\ [chr |-> c, pos |-> v.pos] \in bed_df }

\* the tuple query_single_chromosome returns: every failure (missing VCF,
\* CalledProcessError, TimeoutExpired, any other Exception) becomes an error
\* message in the tuple, never an exception of the future
ResultOf(c, o) ==
    CASE o = "ok"           -> [text |-> BcftoolsRows(c),
                                num |-> Cardinality(BcftoolsRows(c)), error |-> "None"]
      [] o = "vcf_missing"  -> [text |-> {}, num |-> 0, error |-> "VCF not found"]
      [] o = "exit_nonzero" -> [text |-> {}, num |-> 0, error |-> "bcftools failed"]
      [] o = "timeout"      -> [text |-> {}, num |-> 0, error |-> "Query timed out"]
      [] OTHER              -> [text |-> {}, num |-> 0, error |-> "Error"]

\* the temporary BED file when query_single_chromosome returns: none is created
\* when the VCF is missing; NamedTemporaryFile(delete=False) creates it and the
\* "finally" of the inner try unlinks it, but to_csv runs before that try is
\* entered, so an exception while writing goes to the outer "except Exception"
\* with the file left on disk
TmpBedAfter(o) ==
    CASE o = "vcf_missing"  -> "none"
      [] o = "write_raises" -> "exists"
      [] OTHER              -> "removed"

\* the rows of a result text in the order they are appended to the file
RECURSIVE SeqOfSet(_)
SeqOfSet(S) ==
    IF S = {} THEN << >>
    ELSE LET x == CHOOSE y \in S : TRUE IN <<x>> \o SeqOfSet(S \ {x})

\* bug variant: the worker process appends its rows to the output file itself,
\* and the orchestrating process appends them again when it gets the result
WorkerReturn_WritesOutput(c, o) ==
    /\ gpc = "collect"
    /\ worker[c] = "running"
    /\ worker' = [worker EXCEPT ![c] = "finished"]
    /\ outcome' = [outcome EXCEPT ![c] = o]
    /\ future' = [future EXCEPT ![c] = ResultOf(c, o)]
    /\ tmp_bed' = [tmp_bed EXCEPT ![c] = TmpBedAfter(o)]
    /\ output_rows' = output_rows \o SeqOfSet(ResultOf(c, o).text)
    /\ UNCHANGED <<paths, n_jobs, paths_file_exists, vcf_dir_exists, gpc, bed_df, chromosomes, consumed, completed,
                   failed_chroms, success, merged>>
    /\ UNCHANGED <<varsScorer, varsCoverage, varsAlpha, varsStats, varsPipe>>

\* query_single_chromosome runs to its return in a worker process
WorkerReturn(c, o) ==
    /\ gpc = "collect"
    /\ worker[c] = "running"
    /\ worker' = [worker EXCEPT ![c] = "finished"]
    /\ outcome' = [outcome EXCEPT ![c] = o]
    /\ future' = [future EXCEPT ![c] = ResultOf(c, o)]
    /\ tmp_bed' = [tmp_bed EXCEPT ![c] = TmpBedAfter(o)]
    /\ UNCHANGED <<paths, n_jobs, paths_file_exists, vcf_dir_exists, gpc, bed_df, chromosomes, consumed, completed,
                   failed_chroms, output_rows, success, merged>>
    /\ UNCHANGED <<varsScorer, varsCoverage, varsAlpha, varsStats, varsPipe>>

\* bug variant: once a shard has failed, the rows of the shards received after
\* it are no longer appended to the output file
Collect_StopsWritingAfterFailure(c) ==
    /\ gpc = "collect"
    /\ worker[c] = "finished"
    /\ consumed[c] = 0
    /\ consumed' = [consumed EXCEPT ![c] = 1]
    /\ completed' = completed + 1
    /\ IF future[c].error # "None"
          THEN /\ failed_chroms' = Append(failed_chroms, c)
               /\ UNCHANGED output_rows
          ELSE /\ output_rows' = IF failed_chroms = << >>
                                    THEN output_rows \o SeqOfSet(future[c].text)
                                    ELSE output_rows
               /\ UNCHANGED failed_chroms
    /\ UNCHANGED <<paths, n_jobs, paths_file_exists, vcf_dir_exists, tmp_bed, gpc, bed_df, chromosomes, worker, outcome, future,
                   success, merged>>
    /\ UNCHANGED <<varsScorer, varsCoverage, varsAlpha, varsStats, varsPipe>>

\* bug variant: a failed shard ends the collection loop with an exception
Collect_RaisesOnFailure(c) ==
    /\ gpc = "collect"
    /\ worker[c] = "finished"
    /\ consumed[c] = 0
    /\ consumed' = [consumed EXCEPT ![c] = 1]
    /\ completed' = completed + 1
    /\ IF future[c].error # "None"
          THEN /\ gpc' = "aborted"
               /\ UNCHANGED <<failed_chroms, output_rows>>
          ELSE /\ output_rows' = output_rows \o SeqOfSet(future[c].text)
               /\ UNCHANGED <<failed_chroms, gpc>>
    /\ UNCHANGED <<paths, n_jobs, paths_file_exists, vcf_dir_exists, tmp_bed, bed_df, chromosomes, worker, outcome, future,
                   success, merged>>
    /\ UNCHANGED <<varsScorer, varsCoverage, varsAlpha, varsStats, varsPipe>>

\* query_gnomad_parallel, one iteration of "for future in as_completed(...)":
\* a failed shard is logged and listed, a good one is appended to the output
Collect(c) ==
    /\ gpc = "collect"
    /\ worker[c] = "finished"
    /\ consumed[c] = 0
    /\ consumed' = [consumed EXCEPT ![c] = 1]
    /\ completed' = completed + 1
    /\ IF future[c].error # "None"
          THEN /\ failed_chroms' = Append(failed_chroms, c)
               /\ UNCHANGED output_rows
          ELSE /\ output_rows' = output_rows \o SeqOfSet(future[c].text)
               /\ UNCHANGED failed_chroms
    /\ UNCHANGED <<paths, n_jobs, paths_file_exists, vcf_dir_exists, tmp_bed, gpc, bed_df, chromosomes, worker, outcome, future,
                   success, merged>>
    /\ UNCHANGED <<varsScorer, varsCoverage, varsAlpha, varsStats, varsPipe>>

\* query_gnomad_parallel: as_completed is exhausted, "return len(failed) == 0";
\* main logs a warning on False and goes on with the data it has
ReturnFromQuery ==
    /\ gpc = "collect"
    /\ \A c \in chromosomes : consumed[c] > 0
    /\ success' = IF failed_chroms = << >> THEN "True" ELSE "False"
    /\ gpc' = "queried"
    /\ UNCHANGED <<paths, n_jobs, paths_file_exists, vcf_dir_exists, tmp_bed, bed_df, chromosomes, worker, outcome, future,
                   consumed, completed, failed_chroms, output_rows, merged>>
    /\ UNCHANGED <<varsScorer, varsCoverage, varsAlpha, varsStats, varsPipe>>

\* match_paths_to_gnomad: the prefix is decided on the first row of paths.tsv
MatchKey(i) ==
    IF StartsWithChr(paths[1].chr)
       THEN paths[i]
       ELSE [chr |-> AddChr(paths[i].chr), pos |-> paths[i].pos]

\* the rows of gnomad_query_results.tsv a paths row joins with
Matches(i) ==
    { j \in DOMAIN output_rows :
          /\ output_rows[j].chr = MatchKey(i).chr
          /\ output_rows[j].pos = MatchKey(i).pos }

\* match_paths_to_gnomad: left merge of the paths rows with the query results,
\* then fillna(0) on AF, AC, AN, nhomalt: a paths row without a match gets 0
MergedRow(i) ==
    [key |-> MatchKey(i),
     copies |-> IF Matches(i) = {} THEN 1 ELSE Cardinality(Matches(i)),
     AN |-> IF Matches(i) = {} THEN 0
            ELSE output_rows[CHOOSE j \in Matches(i) : TRUE].AN]

MatchPaths ==
    /\ gpc = "queried"
    /\ merged' = [i \in DOMAIN paths |-> MergedRow(i)]
    /\ gpc' = "matched"
    /\ UNCHANGED <<paths, n_jobs, paths_file_exists, vcf_dir_exists, tmp_bed, bed_df, chromosomes, worker, outcome, future,
                   consumed, completed, failed_chroms, output_rows, success>>
    /\ UNCHANGED <<varsScorer, varsCoverage, varsAlpha, varsStats, varsPipe>>

NextGnomad ==
    \/ CheckInputs
    \/ PlanShards
    \/ \E c \in chromosomes : WorkerStart(c)
    \/ \E c \in chromosomes : \E o \in Outcomes : WorkerReturn(c, o)
    \/ \E c \in chromosomes : Collect(c)
    \/ ReturnFromQuery
    \/ MatchPaths

(***************************************************************************)
(*                     COVERAGE LOOKUP BACKENDS                            *)
(***************************************************************************)

\* a locus stands for one "chrN:position" key; the file lists loci in
\* ascending order, one line per locus
Loci == 1 .. MaxLocus
\* the AN values explored: zero and both sides of each threshold
ANValues == {0, AN_MEDIUM_CONFIDENCE - 1, AN_MEDIUM_CONFIDENCE,
             AN_HIGH_CONFIDENCE - 1, AN_HIGH_CONFIDENCE}

EmptyDict == [l \in {} |-> 0]
NoCounts == [high |-> 0, medium |-> 0, low |-> 0, missing |-> 0]

\* the coverage lookups are not part of the run
IdleCoverage ==
    /\ reference = EmptyDict
    /\ query_positions = {}
    /\ cpc = "idle"
    /\ coverage_dict = EmptyDict
    /\ mem_results = EmptyDict
    /\ lines_processed = 0
    /\ stream_results = EmptyDict
    /\ tabix_results = EmptyDict
    /\ forbidden_an = EmptyDict
    /\ high_conf_variants = {}
    /\ position_coverage = EmptyDict
    /\ stats_counts = NoCounts
    /\ tabix_counts = NoCounts

InitCoverage ==
    /\ reference \in UNION { [D -> ANValues] : D \in SUBSET Loci }
    /\ query_positions \in SUBSET Loci
    /\ cpc = "load"
    /\ coverage_dict = EmptyDict
    /\ mem_results = EmptyDict
    /\ lines_processed = 0
    /\ stream_results = EmptyDict
    /\ tabix_results = EmptyDict
    /\ forbidden_an = EmptyDict
    /\ high_conf_variants = {}
    /\ position_coverage = EmptyDict
    /\ stats_counts = NoCounts
    /\ tabix_counts = NoCounts

\* dict with one more key (d[k] = v)
Put(d, k, v) == [x \in DOMAIN d \cup {k} |-> IF x = k THEN v ELSE d[x]]

\* the locus on line k of the coverage file (after the header)
LineLocus(k) ==
    CHOOSE l \in DOMAIN reference :
        Cardinality({ m \in DOMAIN reference : m < l }) = k - 1

NLines == Cardinality(DOMAIN reference)

\* load_coverage_into_memory: every line of the file goes into the dictionary
LoadCoverageIntoMemory ==
    /\ cpc = "load"
    /\ coverage_dict' = [l \in { LineLocus(k) : k \in 1 .. NLines } |-> reference[l]]
    /\ cpc' = "memory"
    /\ UNCHANGED <<reference, query_positions, stats_counts, tabix_counts, mem_results, lines_processed,
                   stream_results, tabix_results, forbidden_an, high_conf_variants,
                   position_coverage>>
    /\ UNCHANGED <<varsScorer, varsGnomad, varsAlpha, varsStats, varsPipe>>

\* query_coverage_from_memory: the queried loci that are keys of the dictionary
QueryCoverageFromMemory ==
    /\ cpc = "memory"
    /\ mem_results' = [l \in query_positions \cap DOMAIN coverage_dict |-> coverage_dict[l]]
    /\ cpc' = "stream"
    /\ UNCHANGED <<reference, query_positions, stats_counts, tabix_counts, coverage_dict, lines_processed,
                   stream_results, tabix_results, forbidden_an, high_conf_variants,
                   position_coverage>>
    /\ UNCHANGED <<varsScorer, varsGnomad, varsAlpha, varsStats, varsPipe>>

\* query_coverage_file, one iteration of "for line in f": count the line, keep
\* it when its locus is queried, and break once every queried locus is found
StreamLine ==
    /\ cpc = "stream"
    /\ lines_processed < NLines
    /\ lines_processed' = lines_processed + 1
    /\ LET locus == LineLocus(lines_processed + 1) IN
          IF locus \in query_positions
             THEN /\ stream_results' = Put(stream_results, locus, reference[locus])
                  /\ cpc' = IF Cardinality(DOMAIN stream_results') =
                                  Cardinality(query_positions)
                               THEN "tabix" ELSE "stream"
             ELSE UNCHANGED <<stream_results, cpc>>
    /\ UNCHANGED <<reference, query_positions, stats_counts, tabix_counts, coverage_dict, mem_results,
                   tabix_results, forbidden_an, high_conf_variants, position_coverage>>
    /\ UNCHANGED <<varsScorer, varsGnomad, varsAlpha, varsStats, varsPipe>>

\* query_coverage_file: the file is exhausted, the function returns results
StreamEnd ==
    /\ cpc = "stream"
    /\ lines_processed = NLines
    /\ cpc' = "tabix"
    /\ UNCHANGED <<reference, query_positions, stats_counts, tabix_counts, coverage_dict, mem_results,
                   lines_processed, stream_results, tabix_results, forbidden_an,
                   high_conf_variants, position_coverage>>
    /\ UNCHANGED <<varsScorer, varsGnomad, varsAlpha, varsStats, varsPipe>>

\* the an a tabix fetch loop computes for one position: 0 to start with, the
\* AN column of the first row fetched, or still 0 when nothing is fetched or
\* the fetch raises
FetchedAN(l, raises) ==
    IF raises \/ l \notin DOMAIN reference THEN 0 ELSE reference[l]

\* query_batch, one iteration of "for chrom, pos in positions_batch"
QueryBatchFetch(l, raises) ==
    /\ cpc = "tabix"
    /\ l \in query_positions \ DOMAIN tabix_results
    /\ tabix_results' = Put(tabix_results, l, FetchedAN(l, raises))
    /\ UNCHANGED <<reference, query_positions, stats_counts, tabix_counts, cpc, coverage_dict, mem_results,
                   lines_processed, stream_results, forbidden_an, high_conf_variants,
                   position_coverage>>
    /\ UNCHANGED <<varsScorer, varsGnomad, varsAlpha, varsStats, varsPipe>>

\* query_batch returns once every position of the batch has a result tuple
QueryBatchReturn ==
    /\ cpc = "tabix"
    /\ DOMAIN tabix_results = query_positions
    /\ cpc' = "forbidden"
    /\ UNCHANGED <<reference, query_positions, stats_counts, tabix_counts, coverage_dict, mem_results,
                   lines_processed, stream_results, tabix_results, forbidden_an,
                   high_conf_variants, position_coverage>>
    /\ UNCHANGED <<varsScorer, varsGnomad, varsAlpha, varsStats, varsPipe>>

\* extract_forbidden_variants.query_coverage_batch with min_an = 100000: an = 0,
\* set from the first fetched row, left at 0 when the fetch raises ("except:
\* pass"); only positions with an >= min_an are returned
QueryCoverageBatch(raising) ==
    /\ cpc = "forbidden"
    /\ forbidden_an' = [l \in query_positions |-> FetchedAN(l, l \in raising)]
    /\ high_conf_variants' = { l \in query_positions : forbidden_an'[l] >= AN_HIGH_CONFIDENCE }
    /\ cpc' = "save"
    /\ UNCHANGED <<reference, query_positions, stats_counts, tabix_counts, coverage_dict, mem_results,
                   lines_processed, stream_results, tabix_results, position_coverage>>
    /\ UNCHANGED <<varsScorer, varsGnomad, varsAlpha, varsStats, varsPipe>>

\* save_position_coverage: the confidence written for an AN
Confidence(an) ==
    IF an >= AN_HIGH_CONFIDENCE THEN "high"
    ELSE IF an >= AN_MEDIUM_CONFIDENCE THEN "medium"
    ELSE IF an > 0 THEN "low"
    ELSE "missing"

\* save_position_coverage: an = coverage_data.get(locus, 0) for every position
SavePositionCoverage ==
    /\ cpc = "save"
    /\ position_coverage' =
          [l \in query_positions |->
              LET an == IF l \in DOMAIN mem_results THEN mem_results[l] ELSE 0
              IN [AN |-> an, confidence |-> Confidence(an)]]
    /\ cpc' = "stats"
    /\ UNCHANGED <<reference, query_positions, stats_counts, tabix_counts, coverage_dict, mem_results,
                   lines_processed, stream_results, tabix_results, forbidden_an,
                   high_conf_variants>>
    /\ UNCHANGED <<varsScorer, varsGnomad, varsAlpha, varsStats, varsPipe>>

\* compute_constraint_statistics, the chain of tests on one locus of a stratum:
\* "if locus in coverage_data: if an >= HIGH ... elif an >= MEDIUM ... else low"
\* and "else: missing"
StatsTier(l) ==
    IF l \in DOMAIN mem_results
       THEN IF mem_results[l] >= AN_HIGH_CONFIDENCE THEN "high"
            ELSE IF mem_results[l] >= AN_MEDIUM_CONFIDENCE THEN "medium"
            ELSE "low"
       ELSE "missing"

\* compute_constraint_statistics for one stratum (possible = query_positions):
\* every locus of the stratum adds one to the counter of its tier
ComputeConstraintStatistics ==
    /\ cpc = "stats"
    /\ stats_counts' =
          [t \in {"high", "medium", "low", "missing"} |->
              Cardinality({ l \in query_positions : StatsTier(l) = t })]
    /\ cpc' = "tabix_stats"
    /\ UNCHANGED <<reference, query_positions, tabix_counts, coverage_dict, mem_results,
                   lines_processed, stream_results, tabix_results, forbidden_an,
                   high_conf_variants, position_coverage>>
    /\ UNCHANGED <<varsScorer, varsGnomad, varsAlpha, varsStats, varsPipe>>

\* bug variant: the low mask includes the medium threshold
TabixTiers_Overlap(an) ==
    { t \in {"high", "medium", "low", "missing"} :
          \/ t = "high" /\ an >= AN_HIGH_CONFIDENCE
          \/ t = "medium" /\ (an >= AN_MEDIUM_CONFIDENCE /\ an < AN_HIGH_CONFIDENCE)
          \/ t = "low" /\ (an > 0 /\ an <= AN_MEDIUM_CONFIDENCE)
          \/ t = "missing" /\ an = 0 }

\* query_coverage.main: the four masks over an_array, each computed on its own:
\* an >= AN_HIGH; (an >= AN_MED) & (an < AN_HIGH); (an > 0) & (an < AN_MED);
\* an == 0. The tiers whose mask an an value satisfies.
TabixTiers(an) ==
    { t \in {"high", "medium", "low", "missing"} :
          \/ t = "high" /\ an >= AN_HIGH_CONFIDENCE
          \/ t = "medium" /\ (an >= AN_MEDIUM_CONFIDENCE /\ an < AN_HIGH_CONFIDENCE)
          \/ t = "low" /\ (an > 0 /\ an < AN_MEDIUM_CONFIDENCE)
          \/ t = "missing" /\ an = 0 }

\* query_coverage.main for one stratum: np.sum of each mask over the an values
\* query_batch returned for the positions of the stratum
QueryCoverageStatistics ==
    /\ cpc = "tabix_stats"
    /\ tabix_counts' =
          [t \in {"high", "medium", "low", "missing"} |->
              Cardinality({ l \in DOMAIN tabix_results : t \in TabixTiers(tabix_results[l]) })]
    /\ cpc' = "done"
    /\ UNCHANGED <<reference, query_positions, stats_counts, coverage_dict, mem_results,
                   lines_processed, stream_results, tabix_results, forbidden_an,
                   high_conf_variants, position_coverage>>
    /\ UNCHANGED <<varsScorer, varsGnomad, varsAlpha, varsStats, varsPipe>>

NextCoverage ==
    \/ LoadCoverageIntoMemory
    \/ QueryCoverageFromMemory
    \/ StreamLine
    \/ StreamEnd
    \/ \E l \in query_positions : \E raises \in BOOLEAN : QueryBatchFetch(l, raises)
    \/ QueryBatchReturn
    \/ \E raising \in SUBSET query_positions : QueryCoverageBatch(raising)
    \/ SavePositionCoverage
    \/ ComputeConstraintStatistics
    \/ QueryCoverageStatistics

(***************************************************************************)
(*          SINGLE-PASS SCORER (04_run_alphagenome)                        *)
(***************************************************************************)

\* the single-pass scorer is not part of the run
IdleAlpha ==
    /\ ag_api_key = FALSE
    /\ variants_path_exists = FALSE
    /\ clean = FALSE
    /\ ag_n_variants = 0
    /\ ag_failing = {}
    /\ ag_bad_fields = {}
    /\ ref_alt = -1
    /\ failed_ref = {}
    /\ had_checkpoint = FALSE
    /\ apc = "idle"
    /\ raw_checkpoint = "absent"
    /\ ag_row = 0
    /\ results = {}
    /\ failed_variants = {}
    /\ predictions_df = "unset"
    /\ return_code = -1

InitAlpha ==
    /\ ag_api_key \in BOOLEAN
    /\ variants_path_exists \in BOOLEAN
    /\ clean \in BOOLEAN
    /\ ag_n_variants \in 0 .. MaxAgVariants
    /\ ag_failing \in SUBSET (0 .. (ag_n_variants - 1))
    /\ ag_bad_fields \in SUBSET (0 .. (ag_n_variants - 1))
    /\ ref_alt = -1
    /\ failed_ref = {}
    /\ had_checkpoint \in BOOLEAN
    /\ apc = "start"
    /\ raw_checkpoint = IF had_checkpoint THEN "present" ELSE "absent"
    /\ ag_row = 0
    /\ results = {}
    /\ failed_variants = {}
    /\ predictions_df = "unset"
    /\ return_code = -1

\* main up to the loaded variants: "if not api_key: raise ValueError", the
\* config is read, "if not variants_path.exists(): raise FileNotFoundError",
\* pd.read_csv
AgCheckConfig ==
    /\ apc = "start"
    /\ apc' = IF ag_api_key /\ variants_path_exists THEN "clean" ELSE "config_error"
    /\ UNCHANGED <<ag_api_key, variants_path_exists, clean, ag_n_variants, ag_failing, ag_bad_fields, ref_alt, failed_ref,
                   had_checkpoint, raw_checkpoint, ag_row, results, failed_variants,
                   predictions_df, return_code>>
    /\ UNCHANGED <<varsScorer, varsGnomad, varsCoverage, varsStats, varsPipe>>

\* bug variant: the --clean flag is not acted on
AgClean_IgnoresFlag ==
    /\ apc = "clean"
    /\ apc' = "resume_check"
    /\ UNCHANGED <<ag_api_key, variants_path_exists, clean, ag_n_variants, ag_failing, ag_bad_fields, ref_alt, failed_ref,
                   had_checkpoint, raw_checkpoint, ag_row, results, failed_variants,
                   predictions_df, return_code>>
    /\ UNCHANGED <<varsScorer, varsGnomad, varsCoverage, varsStats, varsPipe>>

\* main: "if args.clean and raw_checkpoint.exists(): raw_checkpoint.unlink()"
AgClean ==
    /\ apc = "clean"
    /\ raw_checkpoint' = IF clean /\ raw_checkpoint = "present"
                            THEN "absent" ELSE raw_checkpoint
    /\ apc' = "resume_check"
    /\ UNCHANGED <<ag_api_key, variants_path_exists, clean, ag_n_variants, ag_failing, ag_bad_fields, ref_alt, failed_ref,
                   had_checkpoint, ag_row, results, failed_variants, predictions_df,
                   return_code>>
    /\ UNCHANGED <<varsScorer, varsGnomad, varsCoverage, varsStats, varsPipe>>

\* main: "if raw_checkpoint.exists(): predictions_df = pd.read_parquet(...)"
\* "else: predictions_df = score_variants_alphagenome(...)"
AgResumeCheck ==
    /\ apc = "resume_check"
    /\ IF raw_checkpoint = "present"
          THEN /\ predictions_df' = "checkpoint"
               /\ apc' = "post"
          ELSE /\ apc' = "scoring"
               /\ UNCHANGED predictions_df
    /\ UNCHANGED <<ag_api_key, variants_path_exists, clean, ag_n_variants, ag_failing, ag_bad_fields, ref_alt, failed_ref,
                   had_checkpoint, raw_checkpoint, ag_row, results, failed_variants,
                   return_code>>
    /\ UNCHANGED <<varsScorer, varsGnomad, varsCoverage, varsStats, varsPipe>>

\* score_variants_alphagenome, one iteration of the loop over variants_df.
\* chrom and pos are set to None at the head of the iteration, ref and alt are
\* not: they are assigned inside the try, after int(row['genomic_position']).
\* The except branch builds the failure entry from chrom, pos, ref, alt: when
\* the fields could not be read, ref and alt are the values of the last row
\* that got that far, and when there was no such row the except branch itself
\* raises NameError, which nothing catches (main calls the function bare)
AgScoreRow ==
    /\ apc = "scoring"
    /\ ag_row < ag_n_variants
    /\ IF ag_row \in ag_bad_fields
          THEN /\ UNCHANGED <<ref_alt, results>>
               /\ IF ref_alt = -1
                     THEN /\ apc' = "crashed"
                          /\ UNCHANGED <<failed_variants, failed_ref, ag_row>>
                     ELSE /\ failed_variants' = failed_variants \cup {ag_row}
                          /\ failed_ref' = failed_ref \cup {<<ag_row, ref_alt>>}
                          /\ ag_row' = ag_row + 1
                          /\ UNCHANGED apc
          ELSE /\ ref_alt' = ag_row
               /\ ag_row' = ag_row + 1
               /\ UNCHANGED apc
               /\ IF ag_row \in ag_failing
                     THEN /\ failed_variants' = failed_variants \cup {ag_row}
                          /\ failed_ref' = failed_ref \cup {<<ag_row, ag_row>>}
                          /\ UNCHANGED results
                     ELSE /\ results' = results \cup {ag_row}
                          /\ UNCHANGED <<failed_variants, failed_ref>>
    /\ UNCHANGED <<ag_api_key, variants_path_exists, clean, ag_n_variants, ag_failing,
                   ag_bad_fields, had_checkpoint, raw_checkpoint, predictions_df,
                   return_code>>
    /\ UNCHANGED <<varsScorer, varsGnomad, varsCoverage, varsStats, varsPipe>>

\* score_variants_alphagenome after the loop: "if not results: return None",
\* otherwise the tidy frame is returned
AgScoreReturn ==
    /\ apc = "scoring"
    /\ ag_row = ag_n_variants
    /\ predictions_df' = IF results = {} THEN "None" ELSE "scored"
    /\ apc' = "post"
    /\ UNCHANGED <<ag_api_key, variants_path_exists, clean, ag_n_variants, ag_failing, ag_bad_fields, ref_alt, failed_ref,
                   had_checkpoint, raw_checkpoint, ag_row, results, failed_variants,
                   return_code>>
    /\ UNCHANGED <<varsScorer, varsGnomad, varsCoverage, varsStats, varsPipe>>

\* main after the predictions are there: "if predictions_df is None ...: return
\* 1"; otherwise the outputs are written, a checkpoint file that still exists
\* is removed, "return 0"
AgFinish ==
    /\ apc = "post"
    /\ IF predictions_df = "None"
          THEN /\ return_code' = 1
               /\ UNCHANGED raw_checkpoint
          ELSE /\ return_code' = 0
               /\ raw_checkpoint' = "absent"
    /\ apc' = "done"
    /\ UNCHANGED <<ag_api_key, variants_path_exists, clean, ag_n_variants, ag_failing, ag_bad_fields, ref_alt, failed_ref,
                   had_checkpoint, ag_row, results, failed_variants, predictions_df>>
    /\ UNCHANGED <<varsScorer, varsGnomad, varsCoverage, varsStats, varsPipe>>

NextAlpha ==
    \/ AgCheckConfig
    \/ AgClean
    \/ AgResumeCheck
    \/ AgScoreRow
    \/ AgScoreReturn
    \/ AgFinish

(***************************************************************************)
(*        CONSTRAINT STATISTICS (analyze_coverage_constraint, query_coverage) *)
(***************************************************************************)

HammingDistances == 1 .. 3

baseline_hamming == 3

\* numbers are fractions <<numerator, denominator>>; the two special floats
Inf == <<1, 0>>
NaN == <<0, 0>>
One == <<1, 1>>
Zero == <<0, 1>>

IsNaN(x) == x[1] = 0 /\ x[2] = 0

RatEq(x, y) == x[2] # 0 /\ y[2] # 0 /\ x[1] * y[2] = y[1] * x[2]

RatLeq(x, y) == x[2] # 0 /\ y[2] # 0 /\ x[1] * y[2] <= y[1] * x[2]

RECURSIVE Pow(_, _)
Pow(b, e) == IF e = 0 THEN 1 ELSE b * Pow(b, e - 1)

RECURSIVE Choose(_, _)
Choose(n, k) ==
    IF k = 0 THEN 1
    ELSE IF k > n THEN 0
    ELSE Choose(n - 1, k - 1) + Choose(n - 1, k)

RECURSIVE BinomSum(_, _, _)
BinomSum(k, n, r) ==
    IF k < 0 THEN 0
    ELSE Choose(n, k) * Pow(r[1], k) * Pow(r[2] - r[1], n - k) + BinomSum(k - 1, n, r)

\* scipy.stats.binom.cdf(k, n, p): the lower tail P(X <= k); nan when p is not
\* a probability
BinomCdf(k, n, r) ==
    IF r[2] = 0 \/ r[1] > r[2] THEN NaN
    ELSE <<BinomSum(Min(k, n), n, r), Pow(r[2], n)>>

EmptyRows == [h \in {} |-> 0]

IdleStats ==
    /\ st_script = "none"
    /\ hamming_arg = {}
    /\ paths_count = [h \in HammingDistances |-> 0]
    /\ landscape_count = [h \in HammingDistances |-> 0]
    /\ spc = "idle"
    /\ positions_by_hamming = EmptyRows
    /\ observed_by_hamming = EmptyRows
    /\ constraint_df = EmptyRows
    /\ zero_divisions = {}

\* the two input files are independent of each other; --hamming takes one or
\* more values (nargs='+', default 1 2 3), query_coverage has no such option
InitStats ==
    /\ st_script \in {"analyze", "query_coverage"}
    /\ hamming_arg \in IF st_script = "analyze"
                         THEN SUBSET HammingDistances \ {{}}
                         ELSE {HammingDistances}
    /\ paths_count \in [HammingDistances -> 0 .. MaxPossible]
    /\ landscape_count \in [HammingDistances -> 0 .. MaxObserved]
    /\ spc = "load"
    /\ positions_by_hamming = EmptyRows
    /\ observed_by_hamming = EmptyRows
    /\ constraint_df = EmptyRows
    /\ zero_divisions = {}

\* mutant: a key for every Hamming distance, with an empty set when none occurs
GroupByHamming_KeepsEmpty(count) ==
    [h \in HammingDistances |-> count[h]]

\* a defaultdict(set) filled by .add(): a key exists only for a value that
\* occurs in the file
GroupByHamming(count) ==
    [h \in {d \in HammingDistances : count[d] > 0} |-> count[h]]

\* load_mutation_positions and load_observed_variants; in query_coverage the
\* same two loops of main
LoadPositions ==
    /\ spc = "load"
    /\ positions_by_hamming' = GroupByHamming(paths_count)
    /\ observed_by_hamming' = GroupByHamming(landscape_count)
    /\ spc' = IF st_script = "analyze" THEN "select" ELSE "qc_stats"
    /\ UNCHANGED <<st_script, hamming_arg, paths_count, landscape_count,
                   constraint_df, zero_divisions>>
    /\ UNCHANGED <<varsScorer, varsGnomad, varsCoverage, varsAlpha, varsPipe>>

\* main: "positions_by_hamming = {h: pos for h, pos in all_positions.items()
\* if h in args.hamming}"
SelectStrata ==
    /\ spc = "select"
    /\ positions_by_hamming' =
          [h \in (DOMAIN positions_by_hamming) \cap hamming_arg |-> positions_by_hamming[h]]
    /\ spc' = "stats"
    /\ UNCHANGED <<st_script, hamming_arg, paths_count, landscape_count,
                   observed_by_hamming, constraint_df, zero_divisions>>
    /\ UNCHANGED <<varsScorer, varsGnomad, varsCoverage, varsAlpha, varsPipe>>

\* observed_by_hamming.get(hamming, set())
Observed(h) == IF h \in DOMAIN observed_by_hamming THEN observed_by_hamming[h] ELSE 0

\* compute_constraint_statistics: the baseline rate used for stratum h
BaselineRate(h) ==
    IF baseline_hamming \in DOMAIN positions_by_hamming
       THEN IF positions_by_hamming[baseline_hamming] > 0
               THEN <<Observed(baseline_hamming), positions_by_hamming[baseline_hamming]>>
               ELSE Zero
       ELSE IF positions_by_hamming[h] > 0
               THEN <<Observed(h), positions_by_hamming[h]>>
               ELSE Zero

\* expected / n_observed if n_observed > 0 else float('inf')
FoldDepletion(expected, n_observed) ==
    IF n_observed > 0 THEN <<expected[1], expected[2] * n_observed>> ELSE Inf

\* compute_constraint_statistics: the row appended for stratum h
ConstraintRow(h) ==
    LET possible == positions_by_hamming[h]
        n_observed == Observed(h)
        baseline_rate == BaselineRate(h)
        expected_uniform == <<possible * baseline_rate[1], baseline_rate[2]>>
    IN  [total_possible |-> possible,
         observed |-> n_observed,
         baseline_rate |-> baseline_rate,
         expected_uniform |-> expected_uniform,
         fold_depletion |-> FoldDepletion(expected_uniform, n_observed),
         binomial_p |-> IF possible > 0 /\ baseline_rate[1] > 0
                           THEN BinomCdf(n_observed, possible, baseline_rate)
                           ELSE One]

\* one pass of "for hamming in sorted(positions_by_hamming.keys())"
StratumStatistics ==
    /\ spc = "stats"
    /\ DOMAIN constraint_df # DOMAIN positions_by_hamming
    /\ LET h == CHOOSE d \in (DOMAIN positions_by_hamming) \ DOMAIN constraint_df :
                   \A e \in (DOMAIN positions_by_hamming) \ DOMAIN constraint_df : d <= e
       IN  constraint_df' = [d \in (DOMAIN constraint_df) \cup {h} |->
                                IF d = h THEN ConstraintRow(h) ELSE constraint_df[d]]
    /\ UNCHANGED <<st_script, hamming_arg, paths_count, landscape_count, spc,
                   positions_by_hamming, observed_by_hamming, zero_divisions>>
    /\ UNCHANGED <<varsScorer, varsGnomad, varsCoverage, varsAlpha, varsPipe>>

\* "return pd.DataFrame(results)" and main's to_csv of the table
StatisticsReturn ==
    /\ spc = "stats"
    /\ DOMAIN constraint_df = DOMAIN positions_by_hamming
    /\ spc' = "report"
    /\ UNCHANGED <<st_script, hamming_arg, paths_count, landscape_count,
                   positions_by_hamming, observed_by_hamming, constraint_df,
                   zero_divisions>>
    /\ UNCHANGED <<varsScorer, varsGnomad, varsCoverage, varsAlpha, varsPipe>>

\* generate_summary_report: per row "high_conf_possible / total_possible * 100"
\* on numpy values (a zero divisor gives nan, no exception); the lookup
\* constraint_df['hamming_distance'] raises KeyError on a table without rows
GenerateSummaryReport ==
    /\ spc = "report"
    /\ zero_divisions' = {h \in DOMAIN constraint_df : constraint_df[h].total_possible = 0}
    /\ spc' = IF DOMAIN constraint_df = {} THEN "error" ELSE "done"
    /\ UNCHANGED <<st_script, hamming_arg, paths_count, landscape_count,
                   positions_by_hamming, observed_by_hamming, constraint_df>>
    /\ UNCHANGED <<varsScorer, varsGnomad, varsCoverage, varsAlpha, varsPipe>>

\* query_coverage.main: the row of stratum h, with the rate of the H=3 row as
\* baseline; binom_p is set only "if row['total_possible'] > 0"
QcRow(h) ==
    LET possible == positions_by_hamming[h]
        n_observed == Observed(h)
        baseline_rate == <<Observed(3), positions_by_hamming[3]>>
        expected == <<possible * baseline_rate[1], baseline_rate[2]>>
    IN  [total_possible |-> possible,
         observed |-> n_observed,
         baseline_rate |-> baseline_rate,
         expected_uniform |-> expected,
         fold_depletion |-> FoldDepletion(expected, n_observed),
         binomial_p |-> IF possible > 0
                           THEN BinomCdf(n_observed, possible, baseline_rate)
                           ELSE NaN]

\* query_coverage.main, "CONSTRAINT ANALYSIS RESULTS": the H=3 row is taken
\* with .iloc[0] (IndexError when there is none), then every row gets its
\* expected count, fold depletion and binomial p
QcConstraintResults ==
    /\ spc = "qc_stats"
    /\ IF 3 \in DOMAIN positions_by_hamming
          THEN /\ constraint_df' = [h \in DOMAIN positions_by_hamming |-> QcRow(h)]
               /\ spc' = "qc_report"
          ELSE /\ spc' = "error"
               /\ UNCHANGED constraint_df
    /\ UNCHANGED <<st_script, hamming_arg, paths_count, landscape_count,
                   positions_by_hamming, observed_by_hamming, zero_divisions>>
    /\ UNCHANGED <<varsScorer, varsGnomad, varsCoverage, varsAlpha, varsPipe>>

\* query_coverage.main, the printed summary: "row['high_conf'] /
\* row['total_possible'] * 100" per row; the report then takes the H=1 row
\* with .iloc[0]
QcReport ==
    /\ spc = "qc_report"
    /\ zero_divisions' = {h \in DOMAIN constraint_df : constraint_df[h].total_possible = 0}
    /\ spc' = IF 1 \in DOMAIN constraint_df THEN "done" ELSE "error"
    /\ UNCHANGED <<st_script, hamming_arg, paths_count, landscape_count,
                   positions_by_hamming, observed_by_hamming, constraint_df>>
    /\ UNCHANGED <<varsScorer, varsGnomad, varsCoverage, varsAlpha, varsPipe>>

NextStats ==
    \/ LoadPositions
    \/ SelectStrata
    \/ StratumStatistics
    \/ StatisticsReturn
    \/ GenerateSummaryReport
    \/ QcConstraintResults
    \/ QcReport

(***************************************************************************)
(*                    PIPELINE RUNNER (run_pipeline.py)                    *)
(***************************************************************************)

\* the keys of MODULES
ModuleNumbers == 0 .. 6

\* len(MODULES[m]['scripts'])
NScripts(m) ==
    CASE m = 0 -> 0 [] m = 1 -> 2 [] m = 2 -> 3 [] m = 3 -> 1
      [] m = 4 -> 2 [] m = 5 -> 2 [] OTHER -> 1

\* check_prerequisites knows prerequisites for the modules 2..6 only
HasPrerequisites(m) == m >= 2

\* MODULES[m].get('requires_env'): only module 4 names a variable
RequiresEnv(m) == m = 4

\* sorted(modules)
RECURSIVE Sorted(_)
Sorted(S) ==
    IF S = {} THEN << >>
    ELSE LET m == CHOOSE x \in S : \A y \in S : x <= y
         IN  <<m>> \o Sorted(S \ {m})

IdlePipe ==
    /\ modules = {}
    /\ dry_run = FALSE
    /\ prereq_ok = [m \in ModuleNumbers |-> TRUE]
    /\ env_ok = [m \in ModuleNumbers |-> TRUE]
    /\ failing_script = [m \in ModuleNumbers |-> 0]
    /\ ppc = "idle"
    /\ todo = << >>
    /\ mod_num = -1
    /\ script_i = 0
    /\ visited = << >>
    /\ executed = << >>
    /\ failed_modules = << >>
    /\ pipeline_return = "unset"

\* main has checked that every module number is a key of MODULES; what a check
\* or a script does is drawn for the selected modules
InitPipe ==
    /\ modules \in { S \in SUBSET ModuleNumbers : S # {} /\ Cardinality(S) <= MaxSelected }
    /\ dry_run \in BOOLEAN
    /\ prereq_ok \in { f \in [ModuleNumbers -> BOOLEAN] :
                          \A m \in ModuleNumbers :
                              (m \notin modules \/ ~HasPrerequisites(m)) => f[m] }
    /\ env_ok \in { f \in [ModuleNumbers -> BOOLEAN] :
                       \A m \in ModuleNumbers : (m \notin modules \/ ~RequiresEnv(m)) => f[m] }
    /\ failing_script \in { f \in [ModuleNumbers -> 0 .. 3] :
                               \A m \in ModuleNumbers :
                                   /\ f[m] <= NScripts(m)
                                   /\ m \notin modules => f[m] = 0 }
    /\ ppc = "start"
    /\ todo = << >>
    /\ mod_num = -1
    /\ script_i = 0
    /\ visited = << >>
    /\ executed = << >>
    /\ failed_modules = << >>
    /\ pipeline_return = "unset"

\* run_pipeline: "modules = sorted(modules)", failed_modules = []
SortModules ==
    /\ ppc = "start"
    /\ todo' = Sorted(modules)
    /\ ppc' = "next"
    /\ UNCHANGED <<modules, dry_run, prereq_ok, env_ok, failing_script, mod_num, script_i,
                   visited, executed, failed_modules, pipeline_return>>
    /\ UNCHANGED <<varsScorer, varsGnomad, varsCoverage, varsAlpha, varsStats>>

\* "for mod_num in modules": the next module, or the end of the loop
NextModule ==
    /\ ppc = "next"
    /\ IF todo = << >>
          THEN /\ ppc' = "summary"
               /\ UNCHANGED <<todo, mod_num, visited>>
          ELSE /\ mod_num' = Head(todo)
               /\ todo' = Tail(todo)
               /\ visited' = Append(visited, Head(todo))
               /\ ppc' = "prereq"
    /\ UNCHANGED <<modules, dry_run, prereq_ok, env_ok, failing_script, script_i,
                   executed, failed_modules, pipeline_return>>
    /\ UNCHANGED <<varsScorer, varsGnomad, varsCoverage, varsAlpha, varsStats>>

\* bug variant: a module with missing prerequisites is recorded as failed but
\* the loop goes on with its environment check and scripts
CheckPrerequisites_NoBreak ==
    /\ ppc = "prereq"
    /\ IF ~prereq_ok[mod_num] /\ ~dry_run
          THEN failed_modules' = Append(failed_modules, mod_num)
          ELSE UNCHANGED failed_modules
    /\ ppc' = "env"
    /\ UNCHANGED <<modules, dry_run, prereq_ok, env_ok, failing_script, todo, mod_num,
                   script_i, visited, executed, pipeline_return>>
    /\ UNCHANGED <<varsScorer, varsGnomad, varsCoverage, varsAlpha, varsStats>>

\* check_prerequisites and the test after it: outside dry-run a module with a
\* missing prerequisite is appended to failed_modules and the loop is left
CheckPrerequisites ==
    /\ ppc = "prereq"
    /\ IF ~prereq_ok[mod_num] /\ ~dry_run
          THEN /\ failed_modules' = Append(failed_modules, mod_num)
               /\ ppc' = "summary"
          ELSE /\ ppc' = "env"
               /\ UNCHANGED failed_modules
    /\ UNCHANGED <<modules, dry_run, prereq_ok, env_ok, failing_script, todo, mod_num,
                   script_i, visited, executed, pipeline_return>>
    /\ UNCHANGED <<varsScorer, varsGnomad, varsCoverage, varsAlpha, varsStats>>

\* check_environment and the test after it; then "if not scripts: continue"
CheckEnvironment ==
    /\ ppc = "env"
    /\ IF ~env_ok[mod_num] /\ ~dry_run
          THEN /\ failed_modules' = Append(failed_modules, mod_num)
               /\ ppc' = "summary"
               /\ UNCHANGED script_i
          ELSE /\ ppc' = IF NScripts(mod_num) = 0 THEN "next" ELSE "scripts"
               /\ script_i' = 1
               /\ UNCHANGED failed_modules
    /\ UNCHANGED <<modules, dry_run, prereq_ok, env_ok, failing_script, todo, mod_num,
                   visited, executed, pipeline_return>>
    /\ UNCHANGED <<varsScorer, varsGnomad, varsCoverage, varsAlpha, varsStats>>

\* run_command: in dry-run the command is printed and True is returned;
\* otherwise it is executed and True is returned when it exits with 0 (a
\* non-zero exit and an exception both give False)
RunCommandSucceeds == dry_run \/ failing_script[mod_num] # script_i

\* one pass of "for i, script_info in enumerate(scripts, 1)": a failed script
\* outside dry-run ends the module and, through "if mod_num in failed_modules:
\* break", the loop over the modules
RunScript ==
    /\ ppc = "scripts"
    /\ executed' = IF dry_run THEN executed ELSE Append(executed, <<mod_num, script_i>>)
    /\ IF ~RunCommandSucceeds
          THEN /\ failed_modules' = Append(failed_modules, mod_num)
               /\ ppc' = "summary"
               /\ UNCHANGED script_i
          ELSE /\ UNCHANGED failed_modules
               /\ IF script_i = NScripts(mod_num)
                     THEN /\ ppc' = "next"
                          /\ UNCHANGED script_i
                     ELSE /\ ppc' = "scripts"
                          /\ script_i' = script_i + 1
    /\ UNCHANGED <<modules, dry_run, prereq_ok, env_ok, failing_script, todo, mod_num,
                   visited, pipeline_return>>
    /\ UNCHANGED <<varsScorer, varsGnomad, varsCoverage, varsAlpha, varsStats>>

\* "PIPELINE SUMMARY": False when failed_modules is not empty, True otherwise
PipelineSummary ==
    /\ ppc = "summary"
    /\ pipeline_return' = IF failed_modules # << >> THEN "False" ELSE "True"
    /\ ppc' = "done"
    /\ UNCHANGED <<modules, dry_run, prereq_ok, env_ok, failing_script, todo, mod_num,
                   script_i, visited, executed, failed_modules>>
    /\ UNCHANGED <<varsScorer, varsGnomad, varsCoverage, varsAlpha, varsStats>>

NextPipe ==
    \/ SortModules
    \/ NextModule
    \/ CheckPrerequisites
    \/ CheckEnvironment
    \/ RunScript
    \/ PipelineSummary

Init == InitScorer /\ IdleGnomad /\ IdleCoverage /\ IdleAlpha /\ IdleStats /\ IdlePipe

Spec == Init /\ [][NextScorer]_vars

GnomadInit == InitGnomad /\ IdleScorer /\ IdleCoverage /\ IdleAlpha /\ IdleStats /\ IdlePipe

SpecGnomad == GnomadInit /\ [][NextGnomad]_vars

CoverageInit == InitCoverage /\ IdleScorer /\ IdleGnomad /\ IdleAlpha /\ IdleStats /\ IdlePipe

SpecCoverage == CoverageInit /\ [][NextCoverage]_vars

AlphaInit == InitAlpha /\ IdleScorer /\ IdleGnomad /\ IdleCoverage /\ IdleStats /\ IdlePipe

SpecAlpha == AlphaInit /\ [][NextAlpha]_vars

StatsInit == InitStats /\ IdleScorer /\ IdleGnomad /\ IdleCoverage /\ IdleAlpha /\ IdlePipe

SpecStats == StatsInit /\ [][NextStats]_vars

PipeInit == InitPipe /\ IdleScorer /\ IdleGnomad /\ IdleCoverage /\ IdleAlpha /\ IdleStats

SpecPipe == PipeInit /\ [][NextPipe]_vars

\* one of the three entry points that dispatch external calls is started
EntryInit == Init \/ GnomadInit \/ AlphaInit

NextEntry == NextScorer \/ NextGnomad \/ NextAlpha

SpecEntry == EntryInit /\ [][NextEntry]_vars

(***************************************************************************)
(*                  gnomAD QUERY AND MERGE: PROPERTIES                     *)
(***************************************************************************)

\* C4: whatever shards fail (missing VCF, non-zero exit, timeout, exception),
\* every submitted shard runs to its return and main receives exactly one result
\* for it; a failing shard neither blocks a sibling (some step of the query is
\* always possible while a result is outstanding), nor ends the collection, nor
\* changes a sibling's result.
C4_EveryShardYieldsOneResult ==
    /\ gpc = "aborted" => chromosomes = {}
    /\ \A c \in chromosomes :
          /\ consumed[c] <= 1
          /\ consumed[c] = 1 => worker[c] = "finished"
          /\ worker[c] = "finished" =>
                /\ (future[c].error = "None") <=> (outcome[c] = "ok")
                /\ outcome[c] = "ok" => future[c].text = BcftoolsRows(c)
    /\ completed = Cardinality({ c \in chromosomes : consumed[c] = 1 })
    /\ gpc = "collect" => ENABLED NextGnomad
    /\ gpc \in {"queried", "matched"} =>
          \A c \in chromosomes : worker[c] = "finished" /\ consumed[c] = 1

C4_Witness ==
    /\ gpc = "queried"
    /\ n_jobs = 1
    /\ \E c, d \in chromosomes :
          /\ outcome[c] = "timeout"
          /\ outcome[d] = "ok"
          /\ future[d].text # {}
          /\ failed_chroms = <<c>>
          /\ consumed[c] = 1 /\ consumed[d] = 1

\* the shard of a paths row was submitted and its query failed
ShardFailed(i) ==
    /\ MatchKey(i).chr \in chromosomes
    /\ outcome[MatchKey(i).chr] # "ok"

\* the shard of a paths row answered, and the reference has no record for the row
AbsentFromReference(i) ==
    /\ MatchKey(i).chr \in chromosomes
    /\ outcome[MatchKey(i).chr] = "ok"
    /\ ~ \E v \in GnomadVcf : v.chr = MatchKey(i).chr /\ v.pos = MatchKey(i).pos

\* C5: every input position is in paths_with_gnomad.tsv exactly once, and a row
\* that has no value because its shard failed differs, in its value columns,
\* from a row that has no value because the reference has no record for it.
C5_MergeKeepsMissingReasonsApart ==
    gpc = "matched" =>
        /\ DOMAIN merged = DOMAIN paths
        /\ \A i \in DOMAIN merged : merged[i].copies = 1
        /\ \A i, j \in DOMAIN merged :
              (ShardFailed(i) /\ AbsentFromReference(j)) => merged[i].AN # merged[j].AN

\* the shards whose query did not succeed
FailedShards == { c \in chromosomes : outcome[c] # "ok" }

\* C14: after all shards have finished, the failure tally (the failed list that
\* is logged and decides the return value) holds exactly the shards whose query
\* failed, once each, and gnomad_query_results.tsv holds every row of every
\* shard that did not fail, once, and no other row.
C14_TallyAndRowsOfGoodShards ==
    gpc \in {"queried", "matched"} =>
        /\ Len(failed_chroms) = Cardinality(FailedShards)
        /\ { failed_chroms[i] : i \in DOMAIN failed_chroms } = FailedShards
        /\ (success = "True") <=> (FailedShards = {})
        /\ \A c \in chromosomes \ FailedShards :
              \A v \in BcftoolsRows(c) :
                  Cardinality({ j \in DOMAIN output_rows : output_rows[j] = v }) = 1
        /\ \A j \in DOMAIN output_rows :
              /\ output_rows[j].chr \in chromosomes \ FailedShards
              /\ output_rows[j] \in BcftoolsRows(output_rows[j].chr)

C14_Witness ==
    /\ gpc = "queried"
    /\ n_jobs = 2
    /\ \E c, d \in chromosomes :
          /\ outcome[c] = "exit_nonzero"
          /\ outcome[d] = "ok"
          /\ failed_chroms = <<c>>
          /\ BcftoolsRows(d) # {}
          /\ \A v \in BcftoolsRows(d) : \E j \in DOMAIN output_rows : output_rows[j] = v

\* an input position as query_gnomad_parallel names it after the prefix step
PrefixedRow(r) ==
    IF StartsWithChr(first_chr(BedOfPaths)) THEN r
    ELSE [chr |-> AddChr(r.chr), pos |-> r.pos]

\* the shards an input position is assigned to
ShardsOf(r) == { c \in chromosomes : PrefixedRow(r) \in ShardRows(c) }

\* C15 (as stated): once the shards are planned there is one shard per
\* chromosome of the input positions and every input position is in exactly one
\* shard.
C15_EveryPositionInOneShard ==
    gpc \notin {"check", "config_error", "start"} =>
        /\ chromosomes = { PrefixedRow(r).chr : r \in BedOfPaths }
        /\ \A r \in BedOfPaths : Cardinality(ShardsOf(r)) = 1

\* C15 (amended): once the shards are planned there is exactly one shard per
\* chromosome name (after the prefix step) that is both among the input
\* positions and among the chromosomes gnomAD has (chr1..chr22, chrX, chrY); an
\* input position on such a chromosome is in exactly one shard, the positions
\* on any other chromosome are in none; no shard is empty.
C15_PositionsOfAvailableChromsInOneShard ==
    gpc \notin {"check", "config_error", "start"} =>
        /\ chromosomes = { PrefixedRow(r).chr : r \in BedOfPaths } \cap available_chroms
        /\ \A r \in BedOfPaths :
              Cardinality(ShardsOf(r)) =
                  IF PrefixedRow(r).chr \in available_chroms THEN 1 ELSE 0
        /\ \A c \in chromosomes : ShardRows(c) # {}
        /\ \A c \in chromosomes : ShardRows(c) \subseteq { PrefixedRow(r) : r \in BedOfPaths }

C15_Witness ==
    /\ gpc = "collect"
    /\ \E c \in chromosomes : worker[c] = "running"
    /\ \E r \in BedOfPaths : ShardsOf(r) = {}
    /\ \E r \in BedOfPaths : Cardinality(ShardsOf(r)) = 1

\* C12: when query_single_chromosome has returned, the temporary BED file it
\* created is gone, on every exit path (success, non-zero exit, timeout, an
\* exception raised after the file was created, also while it is written).
C12_TmpBedRemovedOnReturn ==
    \A c \in chromosomes : worker[c] = "finished" => tmp_bed[c] # "exists"

(***************************************************************************)
(*                    COVERAGE LOOKUP: PROPERTIES                          *)
(***************************************************************************)

\* what a backend's result says about a locus: its value, or "no entry"
Lookup(d, l) == IF l \in DOMAIN d THEN <<"value", d[l]>> ELSE <<"no entry">>

\* C6: on the same reference and the same query set the three backends (memory
\* index, streaming pass, tabix random access) return the same position-to-value
\* mapping, absent positions included.
C6_BackendsAgree ==
    cpc = "done" =>
        \A l \in query_positions :
            /\ Lookup(mem_results, l) = Lookup(stream_results, l)
            /\ Lookup(stream_results, l) = Lookup(tabix_results, l)

\* C7: a queried position that is not in the reference gets a result that
\* differs from the result of a position present with AN 0, in query_batch, in
\* query_coverage_batch and in the rows save_position_coverage writes.
C7_MissingDiffersFromZero ==
    cpc = "done" =>
        \A l, m \in query_positions :
            (l \notin DOMAIN reference /\ m \in DOMAIN reference /\ reference[m] = 0) =>
                /\ tabix_results[l] # tabix_results[m]
                /\ forbidden_an[l] # forbidden_an[m]
                /\ position_coverage[l] # position_coverage[m]

\* C16: the streaming pass reads the entries of the reference one after the
\* other, each at most once, and reads no further entry once the number of
\* results equals the number of query positions, for every query set.
C16_StreamStopsWhenAllFound ==
    [][ lines_processed' # lines_processed =>
            /\ lines_processed' = lines_processed + 1
            /\ lines_processed' <= NLines
            /\ Cardinality(DOMAIN stream_results) # Cardinality(query_positions)
      ]_vars

Tiers == {"high", "medium", "low", "missing"}

\* C17: in each of the three places that grade positions (the statistics of
\* compute_constraint_statistics, the rows of save_position_coverage, the
\* masks of query_coverage.main) every position of the stratum falls in exactly
\* one of high, medium, low, missing, whatever its AN, and the four counts sum
\* to total_possible.
C17_TiersPartitionTheStratum ==
    /\ cpc \in {"tabix_stats", "done"} =>
          /\ stats_counts.high + stats_counts.medium + stats_counts.low
                 + stats_counts.missing = Cardinality(query_positions)
          /\ \A t \in Tiers :
                stats_counts[t] = Cardinality({ l \in query_positions : StatsTier(l) = t })
    /\ cpc \in {"stats", "tabix_stats", "done"} =>
          /\ DOMAIN position_coverage = query_positions
          /\ \A l \in query_positions : position_coverage[l].confidence \in Tiers
    /\ cpc = "done" =>
          /\ tabix_counts.high + tabix_counts.medium + tabix_counts.low
                 + tabix_counts.missing = Cardinality(query_positions)
          /\ \A l \in query_positions : Cardinality(TabixTiers(tabix_results[l])) = 1

C17_Witness ==
    /\ cpc = "done"
    /\ stats_counts.high > 0 /\ stats_counts.medium > 0 /\ stats_counts.missing > 0
    /\ tabix_counts.medium > 0 /\ tabix_counts.missing > 0
    /\ \E l \in query_positions : tabix_results[l] = AN_MEDIUM_CONFIDENCE
    /\ \E l \in query_positions : position_coverage[l].confidence = "high"

(***************************************************************************)
(*                      ENTRY POINTS: PROPERTIES                           *)
(***************************************************************************)

\* C20: in run_alphagenome_scoring, with --clean a checkpoint that exists is
\* deleted before the resume check, is never loaded, and every row goes through
\* the scoring loop; without --clean a checkpoint that exists is loaded and the
\* scoring loop is not entered; no run both loads the checkpoint and scores.
C20_CleanAndResumeNeverMix ==
    /\ (clean /\ apc \in {"resume_check", "scoring", "post", "done"}) =>
          /\ raw_checkpoint = "absent"
          /\ predictions_df # "checkpoint"
    /\ (clean /\ apc \in {"post", "done"}) =>
          /\ ag_row = ag_n_variants
          /\ results \cup failed_variants = 0 .. (ag_n_variants - 1)
    /\ (~clean /\ had_checkpoint /\ apc \in {"post", "done"}) =>
          /\ predictions_df = "checkpoint"
          /\ ag_row = 0
          /\ results = {} /\ failed_variants = {}
    /\ predictions_df = "checkpoint" => (ag_row = 0 /\ had_checkpoint /\ ~clean)
    /\ apc \in {"start", "clean"} =>
          raw_checkpoint = IF had_checkpoint THEN "present" ELSE "absent"

C20_Witness ==
    /\ clean
    /\ had_checkpoint
    /\ apc = "done"
    /\ return_code = 0
    /\ ag_row = ag_n_variants
    /\ results # {}

\* C19: in the shard query, the batched scorer and the single-pass scorer, a
\* missing input file or credential ends the run in a configuration error
\* before anything is dispatched: no shard is planned or handed to a worker, no
\* batch is entered and no row is scored, no file is written or removed; and a
\* run whose inputs are all there never ends in a configuration error.
C19_ConfigChecksBeforeDispatch ==
    /\ (pc # "idle" /\ ~(api_key /\ input_exists)) =>
          /\ pc \in {"start", "config_error"}
          /\ started = {}
          /\ row = 0 /\ batch_results = {} /\ failed = {}
          /\ \A i \in DOMAIN partitions : partitions[i] = NoFile
    /\ pc = "config_error" => (~(api_key /\ input_exists) /\ ExitStatus = 1)
    /\ (gpc # "idle" /\ ~(paths_file_exists /\ vcf_dir_exists)) =>
          /\ gpc \in {"check", "config_error"}
          /\ chromosomes = {}
          /\ bed_df = {}
          /\ completed = 0 /\ output_rows = << >>
    /\ gpc = "config_error" => ~(paths_file_exists /\ vcf_dir_exists)
    /\ (apc # "idle" /\ ~(ag_api_key /\ variants_path_exists)) =>
          /\ apc \in {"start", "config_error"}
          /\ ag_row = 0 /\ results = {} /\ failed_variants = {}
          /\ raw_checkpoint = IF had_checkpoint THEN "present" ELSE "absent"
          /\ return_code = -1
    /\ apc = "config_error" => ~(ag_api_key /\ variants_path_exists)

C19_Witness ==
    /\ pc = "config_error"
    /\ api_key /\ ~input_exists
    /\ started = {}

\* C24: the query regions that are dispatched and the keys the paths rows are
\* merged on carry the 'chr' prefix exactly once, also when the input mixes
\* prefixed and unprefixed names.
C24_ChrPrefixExactlyOnce ==
    /\ \A r \in bed_df : r.chr[1] = 1
    /\ gpc = "matched" => \A i \in DOMAIN merged : merged[i].key.chr[1] = 1

\* the shards whose result the orchestrating process has received and that
\* did not fail
ReceivedGoodShards == { c \in chromosomes : consumed[c] = 1 /\ outcome[c] = "ok" }

\* C25: at every moment gnomad_query_results.tsv holds exactly the rows of the
\* shards the orchestrating process has received without error, each row once
\* and the rows of one shard next to each other; so the row set after the last
\* shard depends on the shards' outcomes only, not on the order in which the
\* workers finish, and a worker that has finished but was not yet received
\* has written nothing.
C25_OutputIndependentOfCompletionOrder ==
    /\ { output_rows[j] : j \in DOMAIN output_rows } =
          UNION { BcftoolsRows(c) : c \in ReceivedGoodShards }
    /\ \A i, j \in DOMAIN output_rows : output_rows[i] = output_rows[j] => i = j
    /\ \A i, j, k \in DOMAIN output_rows :
          (i < j /\ j < k /\ output_rows[i].chr = output_rows[k].chr)
              => output_rows[j].chr = output_rows[i].chr
    /\ gpc \in {"queried", "matched"} => ReceivedGoodShards = chromosomes \ FailedShards

\* two shards with rows finished in the order opposite to their submission and
\* both are in the output file
C25_Witness ==
    /\ gpc = "queried"
    /\ Len(output_rows) = 2
    /\ output_rows[1].chr = <<1, "2">>
    /\ output_rows[2].chr = <<1, "1">>
    /\ failed_chroms = << >>

(***************************************************************************)
(*                  SINGLE-PASS SCORER: ROW FAILURES                       *)
(***************************************************************************)

\* C27: in score_variants_alphagenome a row that raises at any step, the
\* reading of its fields included, does not end the run, and every such row
\* the loop has passed has a failure entry that carries the row's own
\* coordinates.
C27_RowFailureIsRecordedAsItsOwn ==
    /\ apc # "crashed"
    /\ \A r \in 0 .. (ag_row - 1) :
          r \in (ag_failing \cup ag_bad_fields) =>
              /\ r \in failed_variants
              /\ \A e \in failed_ref : e[1] = r => e[2] = r

(***************************************************************************)
(*                 CONSTRAINT STATISTICS: PROPERTIES                       *)
(***************************************************************************)

\* the smallest positive p-value a table of the model's size can hold
SmallestP == <<1, Pow(MaxPossible, MaxPossible)>>

\* C22: every row of the statistics table with zero observed variants has
\* fold depletion +infinity (no division was attempted), and its p-value is
\* not NaN and is the smallest representable value.
C22_ZeroObservedGivesInfAndSmallestP ==
    \A h \in DOMAIN constraint_df :
        constraint_df[h].observed = 0 =>
            /\ constraint_df[h].fold_depletion = Inf
            /\ ~IsNaN(constraint_df[h].binomial_p)
            /\ RatLeq(constraint_df[h].binomial_p, SmallestP)

\* the parts of C22 taken one by one, to see which of them the code keeps
C22_FoldIsInf ==
    \A h \in DOMAIN constraint_df :
        constraint_df[h].observed = 0 => constraint_df[h].fold_depletion = Inf

C22_NeverNaN ==
    \A h \in DOMAIN constraint_df :
        constraint_df[h].observed = 0 => ~IsNaN(constraint_df[h].binomial_p)

\* C23: a stratum without possible positions has no row in the statistics
\* table, every row of the table has a positive number of possible positions,
\* and the report divides by zero for no stratum.
C23_EmptyStratumIsLeftOut ==
    /\ \A h \in DOMAIN constraint_df :
          /\ constraint_df[h].total_possible > 0
          /\ paths_count[h] > 0
    /\ zero_divisions = {}

\* the statistics and the report were produced for a selection that holds a
\* stratum without possible positions
C23_Witness ==
    /\ spc = "done"
    /\ DOMAIN constraint_df # {}
    /\ \E h \in hamming_arg : paths_count[h] = 0 /\ h \notin DOMAIN constraint_df

\* C28: when paths.tsv holds positions of Hamming distance 3, the expected
\* count of every row of the statistics table is the row's number of possible
\* positions times the rate observed / possible of the Hamming-3 stratum,
\* whichever strata --hamming selects.
C28_ExpectedUsesHamming3Rate ==
    \A h \in DOMAIN constraint_df :
        paths_count[baseline_hamming] > 0 =>
            RatEq(constraint_df[h].expected_uniform,
                  <<constraint_df[h].total_possible * landscape_count[baseline_hamming],
                    paths_count[baseline_hamming]>>)

(***************************************************************************)
(*                     PIPELINE RUNNER: PROPERTIES                         *)
(***************************************************************************)

\* a prerequisite, the environment check or a script of module m fails
ModuleFails(m) == ~prereq_ok[m] \/ ~env_ok[m] \/ failing_script[m] # 0

\* the selected modules up to and including the first one that fails
UpToFirstFailure ==
    { m \in modules : \A k \in modules : (k < m) => ~ModuleFails(k) }

\* the commands of module m that run when the module is reached outside dry-run
CommandsOf(m) ==
    IF ~prereq_ok[m] \/ ~env_ok[m] THEN {}
    ELSE { <<m, i>> : i \in { j \in 1 .. NScripts(m) :
                                 failing_script[m] = 0 \/ j <= failing_script[m] } }

\* C26: run_pipeline enters the selected modules in ascending order; outside
\* dry-run it enters no module after the first one whose prerequisites,
\* environment check or script fails and runs no command after the failing
\* one; it returns True exactly when no module failed (in dry-run nothing is
\* executed, no module fails and every module is entered).
C26_AscendingAndStopsAtFirstFailure ==
    /\ \A i \in DOMAIN visited : visited[i] = Sorted(modules)[i]
    /\ \A i, j \in DOMAIN executed :
          i < j => \/ executed[i][1] < executed[j][1]
                   \/ (executed[i][1] = executed[j][1] /\ executed[i][2] < executed[j][2])
    /\ ~dry_run =>
          /\ \A i \in DOMAIN visited : visited[i] \in UpToFirstFailure
          /\ \A i \in DOMAIN executed : executed[i] \in CommandsOf(executed[i][1])
          /\ \A i \in DOMAIN failed_modules :
                ModuleFails(failed_modules[i]) /\ failed_modules[i] = visited[Len(visited)]
          /\ Len(failed_modules) <= 1
    /\ dry_run => executed = << >> /\ failed_modules = << >>
    /\ ppc = "done" =>
          /\ (pipeline_return = "True") <=> (failed_modules = << >>)
          /\ pipeline_return \in {"True", "False"}
          /\ ~dry_run =>
                /\ (pipeline_return = "True") <=> (\A m \in modules : ~ModuleFails(m))
                /\ { visited[i] : i \in DOMAIN visited } = UpToFirstFailure
                /\ { executed[i] : i \in DOMAIN executed } =
                      UNION { CommandsOf(m) : m \in UpToFirstFailure }
          /\ dry_run => Len(visited) = Cardinality(modules)

\* a run outside dry-run stopped at module 4, whose environment variable is
\* missing, after executing module 3 and without entering module 5
C26_Witness ==
    /\ ppc = "done"
    /\ ~dry_run
    /\ modules = {3, 4, 5}
    /\ ~env_ok[4] /\ prereq_ok[4]
    /\ failed_modules = <<4>>
    /\ visited = <<3, 4>>
    /\ executed = << <<3, 1>> >>
    /\ pipeline_return = "False"


====
